---- MODULE Spec2Model ----
(***************************************************************************)
(* Client-side streaming protocol of the nutrition companion front end:    *)
(*   - the turn coordinator of js/wsclient.js (speech bubbles and the      *)
(*     buffer that withholds assistant text until the user transcript is   *)
(*     final),                                                             *)
(*   - the playback queue of js/audio.js,                                  *)
(*   - the reconnecting socket client (initializeWebSocket and its         *)
(*     handlers).                                                          *)
(* Each component has its own specification over the shared variable       *)
(* tuple; the variables of the other components stay at their initial      *)
(* values.                                                                 *)
(***************************************************************************)
EXTENDS Integers, Sequences, FiniteSets, TLC

(***************************************************************************)
(* Bounds of the model                                                     *)
(***************************************************************************)
\* inbound messages handled per run
MaxEvents == 6
\* audio fragments passed to playAudioChunk per run
MaxFragments == 3
\* sockets created per page load
MaxSockets == 7
\* sockets created by connect() per run
MaxConnects == 3
\* inbound messages delivered per run of the session
MaxSessionEvents == 2
\* setupAudioProcessing calls suspended in an await at a time
MaxStarts == 2
\* frames the processing node posts per run
MaxFrames == 2
\* a sample is the number n / SampleDen, for an integer n
SampleDen == 64
\* how far beyond -1 and 1 the converted samples go, in steps of 1 / SampleDen
SampleMargin == 4
\* sockets the binary-audio client creates per run
MaxTalkSockets == 2

VARIABLES
  \* ---- turn coordinator (js/wsclient.js) ----
  userTranscriptFinalized,   \* BOOLEAN
  aiResponseBuffer,          \* <<>> is null, <<[content, done]>> is a buffer object
  currentUserSpeechBubble,   \* 0 is null, else an index into messagesSection
  lastAiElem,                \* 0 is null, else an index into messagesSection
  pendingTakeawayPayload,    \* "null", "emptyRecs" or "recs"
  messagesSection,           \* the chat: sequence of bubbles in DOM order
  \* ---- observation of the turn coordinator (history, not program state) ----
  lastEvent,                 \* type of the inbound message handled last
  ops,                       \* render operations done by the last handler
  received,                  \* all text_delta contents so far, concatenated
  window,                    \* the span from a committed event to the next transcript_done
  discarded,                 \* text received in a span that a new committed event cut short
  nEvents,                   \* number of inbound messages handled so far
  turn,                      \* tracker of the single-turn event grammar
  transcript,                \* transcript_delta contents of the current span (history)
  \* ---- audio playback (js/audio.js) ----
  audioQueue,                \* FIFO of fragments waiting to be played
  isPlaying,                 \* BOOLEAN
  inflight,                  \* playNextAudioChunk calls suspended in decode or playback
  \* ---- observation of the playback (history, not program state) ----
  enqueued,                  \* fragments pushed on the queue, in call order
  started,                   \* ids of the fragments whose source.start() ran, in order
  skipped,                   \* ids of the fragments given up, in order
  lastAudio,                 \* the playback step taken last
  \* ---- reconnecting client (initializeWebSocket and its handlers) ----
  ws,                        \* readyState of the current socket ("CONNECTING", "OPEN",
                             \* "CLOSING", "CLOSED"), or "undefined"
  replaced,                  \* sockets closed by initializeWebSocket, close event pending
  nSockets,                  \* sockets created so far
  reconnectAttempts,
  reconnectDelay,
  timers,                    \* delays of the pending reconnect timeouts, sorted
  visibilityState,           \* document.visibilityState
  isRecording,
  sessionActive,
  toggleWaiting,             \* toggleRecording is in its 500 ms wait for the socket
  refreshRequired,           \* the "Refresh to Reconnect" control is shown
  \* ---- observation of the client (history, not program state) ----
  scheduled,                 \* delays scheduled since the last open, in order
  tornDown,                  \* cleanup() closed the connection and the record control
                             \* was not used since
  lastConn,                  \* the client step taken last
  \* ---- transport of js/wsclient.js (connect, disconnect, send) ----
  sockets,                   \* readyState of every socket connect() created, in order;
                             \* each keeps the four handlers connect() gave it
  wsRef,                     \* the module variable ws: 0 is null/undefined, else an
                             \* index into sockets
  wsConnected,               \* BOOLEAN
  connectionState,           \* ui.js: "DISCONNECTED", "CONNECTING" or "CONNECTED"
  \* ---- observation of the transport (history, not program state) ----
  sendReturn,                \* what the last sendTextMessage returned, or "none"
  handedTo,                  \* the socket the last sendTextMessage gave a message, or 0
  eventsAtOpen,              \* nEvents when a socket opened last
  lastWs,                    \* the transport step taken last
  \* ---- connection control of the earlier WebSocket module (connectToServer) ----
  connectionTimeouts,        \* connect attempts whose 10 s timeout is pending
  userInitiatedDisconnect,   \* BOOLEAN
  \* ---- observation of the connection control (history, not program state) ----
  attempts,                  \* for every connectToServer call, the socket it waits for
  firedTimeout,              \* the attempt whose timeout fired last, or 0
  \* ---- audio capture (startAudioCapture, setupAudioProcessing) ----
  audioStream,               \* BOOLEAN: a microphone stream is held (FALSE is null)
  sourceNode,                \* BOOLEAN: a source node is held
  audioWorkletNode,          \* BOOLEAN: a worklet node is held
  scriptProcessorNode,       \* BOOLEAN: a script processor node is held
  captureIsRecording,        \* isRecording of the audio module
  isAudioCaptureActive,      \* BOOLEAN
  workletModuleLoaded,       \* BOOLEAN
  setups,                    \* the await each suspended setupAudioProcessing (or
                             \* startCapture) call is in, in the order they suspended
  \* ---- observation of the capture (history, not program state) ----
  lastCapture,               \* the capture step taken last
  \* ---- record control of the earlier modules (toggleAudioCapture) ----
  recordBtnDisabled,         \* recordBtn.disabled, as the earlier WebSocket module and
                             \* its capture control set it
  captureCallbacks,          \* the sockets whose onOpenCallback is the one startCapture
                             \* gave to initWebSocket
  \* ---- batching of the captured audio (processAudioChunk) ----
  audioChunkBuffer,          \* frames waiting for the batch timer, in arrival order
  audioChunkTimer,           \* BOOLEAN: the batch interval timer is armed (FALSE is null)
  mailbox,                   \* frames the processing node has posted and the event loop
                             \* has not delivered yet
  \* ---- observation of the batching (history, not program state) ----
  framesLog,                 \* all frames delivered so far, in order
  sealedAt,                  \* Len(framesLog) when the buffer was cleared last
  batches,                   \* the batches handed to the socket, in order
  nPosted,                   \* frames posted so far
  timerSealedAt,             \* frames delivered when the interval callback last sealed
  releaseOps,                \* what the step taken last released or signalled
  speech,                    \* what the capture handed to the socket (history)
  captureIdle,               \* cleanupAudioResources has run, and since then
                             \* startAudioCapture has not been called and no
                             \* setup has begun to record
  \* ---- convertFloat32ToInt16 on its own ----
  audioData,                 \* the argument of sendAudioChunk: samples n / SampleDen,
                             \* as the integers n
  pcm16,                     \* the array convertFloat32ToInt16 returned, <<>> before
  \* ---- the binary-audio client (btnTalk) ----
  talkSockets,               \* the sockets the click handler created: their readyState
  talkWs,                    \* ws: index of the socket it refers to, 0 for null/undefined
  talkBtnDisabled,           \* btn.disabled
  talkBtnOnclick,            \* btn.onclick: "start" (the click handler) or "stop"
  talkStarting,              \* click handlers suspended in await getUserMedia
  talkAudioStream,           \* audioStream is not null
  talkRecorder,              \* mediaRecorder: "none", "recording" or "inactive"
  talkAudioQueue,            \* audioQueue: fragments waiting, by number
  talkIsPlaying,             \* isPlaying
  talkInflight,              \* fragments whose Audio element is playing, each with a
                             \* playNextInQueue call suspended on it
  talkPlayed,                \* the fragments started so far, in order (history)
  talkReceived,              \* fragments received so far (history)
  lastTalk                   \* the handler that ran last (history)

turnVars == <<userTranscriptFinalized, aiResponseBuffer, currentUserSpeechBubble,
              lastAiElem, pendingTakeawayPayload, messagesSection,
              lastEvent, ops, received, window, discarded, nEvents, turn,
              transcript>>

audioVars == <<audioQueue, isPlaying, inflight, enqueued, started, skipped, lastAudio>>

connVars == <<ws, replaced, nSockets, reconnectAttempts, reconnectDelay, timers,
              visibilityState, isRecording, sessionActive, toggleWaiting, refreshRequired,
              scheduled, tornDown, lastConn>>

wsVars == <<sockets, wsRef, wsConnected, connectionState, sendReturn, handedTo,
            eventsAtOpen, lastWs>>

toggleVars == <<connectionTimeouts, userInitiatedDisconnect, attempts, firedTimeout>>

captureVars == <<audioStream, sourceNode, audioWorkletNode, scriptProcessorNode,
                 captureIsRecording, isAudioCaptureActive, workletModuleLoaded,
                 setups, lastCapture>>

recordVars == <<recordBtnDisabled, captureCallbacks>>

batchVars == <<audioChunkBuffer, audioChunkTimer, mailbox, framesLog, sealedAt, batches,
               nPosted, timerSealedAt, releaseOps, captureIdle, speech>>

convVars == <<audioData, pcm16>>

talkVars == <<talkSockets, talkWs, talkBtnDisabled, talkBtnOnclick, talkStarting,
              talkAudioStream, talkRecorder, talkAudioQueue, talkIsPlaying, talkInflight,
              talkPlayed, talkReceived, lastTalk>>

vars == <<turnVars, audioVars, connVars, wsVars, toggleVars, captureVars, recordVars,
          batchVars, convVars, talkVars>>

\* what the handlers of one component leave alone
exceptTurn == <<audioVars, connVars, wsVars, toggleVars, captureVars, recordVars,
                batchVars, convVars, talkVars>>
exceptAudio == <<turnVars, connVars, wsVars, toggleVars, captureVars, recordVars,
                 batchVars, convVars, talkVars>>
exceptConn == <<turnVars, audioVars, wsVars, toggleVars, captureVars, recordVars,
                batchVars, convVars, talkVars>>
exceptWs == <<turnVars, audioVars, connVars, toggleVars, captureVars, recordVars,
              batchVars, convVars, talkVars>>
exceptToggle == <<turnVars, audioVars, connVars, convVars, talkVars>>
exceptCapture == <<turnVars, audioVars, connVars, wsVars, toggleVars, recordVars,
                   convVars, talkVars>>
exceptTalk == <<turnVars, audioVars, connVars, wsVars, toggleVars, captureVars,
                recordVars, batchVars, convVars>>
exceptRecord == <<audioVars, connVars, batchVars, convVars, talkVars>>

(***************************************************************************)
(* ui.js: message bubbles.  A bubble keeps its raw text (dataset.rawText)  *)
(* and whether recommendation cards were appended to it.  Text is a        *)
(* sequence of tokens; each text_delta event carries either the empty      *)
(* string or one fresh token, so that every piece of received text can be  *)
(* told apart.                                                             *)
(***************************************************************************)
Bubble(sender, text, cards) == [sender |-> sender, rawText |-> text, cards |-> cards]

\* createMessageBubble(sender, initialText): appends a bubble to the chat;
\* the returned reference is the index of the new bubble.
createMessageBubble(ms, sender, initialText) ==
  Append(ms, Bubble(sender, initialText, FALSE))

\* updateMessageBubbleContent(bubbleElement, newRawTextChunk)
updateMessageBubbleContent(ms, bubbleElement, newRawTextChunk) ==
  IF bubbleElement = 0 THEN ms
  ELSE [ms EXCEPT ![bubbleElement].rawText = @ \o newRawTextChunk]

\* displayTakeawayRecommendations(payload): nothing for an empty list,
\* else a new empty "ai" bubble that receives the cards.
displayTakeawayRecommendations(ms, payload) ==
  IF payload # "recs" THEN ms
  ELSE Append(ms, Bubble("ai", <<>>, TRUE))

CreateOp(sender, bubble, text) ==
  [op |-> "create", sender |-> sender, bubble |-> bubble, text |-> text]
AppendOp(sender, bubble, text) ==
  [op |-> "append", sender |-> sender, bubble |-> bubble, text |-> text]

\* sinceDone: the transcript_delta contents, one entry per message, received
\* since the last transcript_done message.  sinceReset: those received since
\* the last message that released currentUserSpeechBubble (transcript_done,
\* error, or a message that could not be parsed).
NoTranscript == [sinceDone |-> <<>>, sinceReset |-> <<>>]

TranscriptStep(ev, chunk) ==
  IF ev = "transcript_delta"
    THEN [sinceDone |-> Append(transcript.sinceDone, chunk),
          sinceReset |-> Append(transcript.sinceReset, chunk)]
  ELSE IF ev = "transcript_done" THEN NoTranscript
  ELSE IF ev \in {"error", "malformed"} THEN [transcript EXCEPT !.sinceReset = <<>>]
  ELSE transcript

\* phase: "none", "open" (a committed event was handled and no transcript_done
\* since), "closed" (the transcript_done that ended the span was handled last).
\* deltas: text_delta contents received in the span.  earlyDone: a text_done was
\* handled in the span.  earlyDoneEver: a text_done was handled with the
\* transcript pending since the last transcript_done.  bubbles: the number of
\* bubbles in the chat when the committed event was handled.
NoWindow ==
  [phase |-> "none", deltas |-> <<>>, earlyDone |-> FALSE, earlyDoneEver |-> FALSE,
   bubbles |-> 0]

WindowStep(ev, chunk) ==
  IF ev = "committed"
    THEN [phase |-> "open", deltas |-> <<>>, earlyDone |-> FALSE,
          earlyDoneEver |-> window.earlyDoneEver /\ window.phase = "open",
          bubbles |-> Len(messagesSection)]
  ELSE IF window.phase = "open" /\ ev = "text_delta"
    THEN [window EXCEPT !.deltas = @ \o chunk]
  ELSE IF window.phase = "open" /\ ev = "text_done"
    THEN [window EXCEPT !.earlyDone = TRUE, !.earlyDoneEver = TRUE]
  ELSE IF window.phase = "open" /\ ev = "transcript_done"
    THEN [window EXCEPT !.phase = "closed"]
  ELSE IF window.phase = "open" THEN window
  ELSE NoWindow

NoTurn == [phase |-> "idle", userDone |-> FALSE, aiDone |-> FALSE, created |-> 0]

\* Number of "ai" bubbles in a chat
RECURSIVE AiBubbles(_)
AiBubbles(ms) ==
  IF ms = <<>> THEN 0
  ELSE (IF ms[Len(ms)].sender = "ai" THEN 1 ELSE 0) + AiBubbles(SubSeq(ms, 1, Len(ms) - 1))

\* The tracker follows one turn: committed, then the user stream
\* (transcript_delta*, transcript_done) interleaved with the assistant stream
\* (text_delta*, text_done).  Any other event voids it.
TurnStep(ev, ms2) ==
  LET made == AiBubbles(ms2) - AiBubbles(messagesSection) IN
  IF ev = "committed"
    THEN [phase |-> IF pendingTakeawayPayload = "null" THEN "open" ELSE "void",
          userDone |-> FALSE, aiDone |-> FALSE, created |-> 0]
  ELSE IF turn.phase # "open" THEN [turn EXCEPT !.phase = IF @ = "closed" THEN "idle" ELSE @]
  ELSE IF ev = "transcript_delta" /\ ~turn.userDone THEN turn
  ELSE IF ev = "text_delta" /\ ~turn.aiDone
    THEN [turn EXCEPT !.created = @ + made]
  ELSE IF ev = "transcript_done" /\ ~turn.userDone
    THEN [turn EXCEPT !.userDone = TRUE, !.created = @ + made,
                      !.phase = IF turn.aiDone THEN "closed" ELSE "open"]
  ELSE IF ev = "text_done" /\ ~turn.aiDone
    THEN [turn EXCEPT !.aiDone = TRUE, !.created = @ + made,
                      !.phase = IF turn.userDone THEN "closed" ELSE "open"]
  ELSE [turn EXCEPT !.phase = "void"]

(***************************************************************************)
(* Initial state: module-level declarations of js/wsclient.js              *)
(***************************************************************************)
TurnInit ==
  /\ userTranscriptFinalized = TRUE
  /\ aiResponseBuffer = <<>>
  /\ currentUserSpeechBubble = 0
  /\ lastAiElem = 0
  /\ pendingTakeawayPayload = "null"
  /\ messagesSection = <<>>
  /\ lastEvent = "none"
  /\ ops = <<>>
  /\ received = <<>>
  /\ window = NoWindow
  /\ discarded = <<>>
  /\ nEvents = 0
  /\ turn = NoTurn
  /\ transcript = NoTranscript

(***************************************************************************)
(* Inbound message handlers of js/wsclient.js                              *)
(***************************************************************************)

BufferContent == IF aiResponseBuffer = <<>> THEN <<>> ELSE aiResponseBuffer[1].content

\* Bookkeeping common to all handlers
Observe(ev, chunk, renderOps) ==
  /\ nEvents < MaxEvents
  /\ nEvents' = nEvents + 1
  /\ lastEvent' = ev
  /\ ops' = renderOps
  /\ received' = IF ev = "text_delta" THEN received \o chunk ELSE received
  /\ window' = WindowStep(ev, chunk)
  /\ discarded' = IF ev = "committed" /\ window.phase = "open"
                    THEN discarded \o window.deltas ELSE discarded
  /\ turn' = TurnStep(ev, messagesSection')
  /\ transcript' = TranscriptStep(ev, chunk)

\* handleTextDelta, transcript pending: start the buffer or append to it
TextDeltaOverwrites(newRawTextChunk) ==
  <<[content |-> newRawTextChunk,
     done |-> IF aiResponseBuffer = <<>> THEN FALSE ELSE aiResponseBuffer[1].done]>>

TextDeltaBuffered(newRawTextChunk) ==
  IF aiResponseBuffer = <<>>
    THEN <<[content |-> newRawTextChunk, done |-> FALSE]>>
    ELSE <<[aiResponseBuffer[1] EXCEPT !.content = @ \o newRawTextChunk]>>

\* handleTextDelta(data) with newRawTextChunk = data.content || ""
handleTextDelta(newRawTextChunk) ==
  /\ IF ~userTranscriptFinalized
       THEN /\ aiResponseBuffer' = TextDeltaBuffered(newRawTextChunk)
            /\ UNCHANGED <<lastAiElem, messagesSection>>
            /\ Observe("text_delta", newRawTextChunk, <<>>)
       ELSE IF lastAiElem = 0
         THEN LET fullInitialRawText == BufferContent \o newRawTextChunk
              IN /\ aiResponseBuffer' = <<>>
                 /\ messagesSection' =
                      createMessageBubble(messagesSection, "ai", fullInitialRawText)
                 /\ lastAiElem' = Len(messagesSection) + 1
                 /\ Observe("text_delta", newRawTextChunk,
                            <<CreateOp("ai", Len(messagesSection) + 1, fullInitialRawText)>>)
         ELSE /\ messagesSection' =
                   updateMessageBubbleContent(messagesSection, lastAiElem, newRawTextChunk)
              /\ UNCHANGED <<aiResponseBuffer, lastAiElem>>
              /\ Observe("text_delta", newRawTextChunk,
                         <<AppendOp("ai", lastAiElem, newRawTextChunk)>>)
  /\ UNCHANGED <<userTranscriptFinalized, currentUserSpeechBubble, pendingTakeawayPayload>>

\* a text_delta message: its content is empty or one fresh token
TextDelta ==
  /\ \E newRawTextChunk \in {<<>>, <<nEvents + 1>>} : handleTextDelta(newRawTextChunk)
  /\ UNCHANGED exceptTurn

\* handleTextDone, transcript already final: the turn is complete
TextDoneKeepsLastAiElem == lastAiElem

TextDoneLastAiElem == 0

\* handleTextDone: is the user transcript already final?
TextDoneNeverFinal == FALSE

TextDoneFinal == userTranscriptFinalized

\* handleTextDone(data)
handleTextDone ==
  /\ IF TextDoneFinal
       THEN /\ lastAiElem' = TextDoneLastAiElem
            /\ aiResponseBuffer' = <<>>
       ELSE /\ aiResponseBuffer' =
                 IF aiResponseBuffer # <<>>
                   THEN <<[aiResponseBuffer[1] EXCEPT !.done = TRUE]>>
                   ELSE <<[content |-> <<>>, done |-> TRUE]>>
            /\ UNCHANGED lastAiElem
  /\ IF pendingTakeawayPayload # "null"
       THEN /\ messagesSection' =
                 displayTakeawayRecommendations(messagesSection, pendingTakeawayPayload)
            /\ pendingTakeawayPayload' = "null"
            /\ Observe("text_done", <<>>,
                       IF pendingTakeawayPayload = "recs"
                         THEN <<[op |-> "cards", sender |-> "ai",
                                 bubble |-> Len(messagesSection) + 1, text |-> <<>>]>>
                         ELSE <<>>)
       ELSE /\ UNCHANGED <<messagesSection, pendingTakeawayPayload>>
            /\ Observe("text_done", <<>>, <<>>)
  /\ UNCHANGED <<userTranscriptFinalized, currentUserSpeechBubble>>
  /\ UNCHANGED exceptTurn

\* handleTranscriptDelta(data) with newRawTextChunk = data.content || ""
handleTranscriptDelta(newRawTextChunk) ==
  /\ IF currentUserSpeechBubble = 0
       THEN /\ messagesSection' = createMessageBubble(messagesSection, "user", newRawTextChunk)
            /\ currentUserSpeechBubble' = Len(messagesSection) + 1
            /\ Observe("transcript_delta", newRawTextChunk,
                       <<CreateOp("user", Len(messagesSection) + 1, newRawTextChunk)>>)
       ELSE /\ messagesSection' =
                 updateMessageBubbleContent(messagesSection, currentUserSpeechBubble,
                                            newRawTextChunk)
            /\ UNCHANGED currentUserSpeechBubble
            /\ Observe("transcript_delta", newRawTextChunk,
                       <<AppendOp("user", currentUserSpeechBubble, newRawTextChunk)>>)
  /\ UNCHANGED <<userTranscriptFinalized, aiResponseBuffer, lastAiElem,
                 pendingTakeawayPayload>>

\* an input_audio_transcript_delta message
TranscriptDelta ==
  /\ \E newRawTextChunk \in {<<>>, <<nEvents + 1>>} : handleTranscriptDelta(newRawTextChunk)
  /\ UNCHANGED exceptTurn

\* handleTranscriptDone: is there buffered content to process?
TranscriptDoneFlushesNewOnly ==
  aiResponseBuffer # <<>> /\ aiResponseBuffer[1].content # <<>> /\ lastAiElem = 0

TranscriptDoneFlushes == aiResponseBuffer # <<>> /\ aiResponseBuffer[1].content # <<>>

\* handleTranscriptDone: the assistant bubble reference it leaves
TranscriptDoneIgnoresDone ==
  IF TranscriptDoneFlushes /\ lastAiElem = 0 THEN Len(messagesSection) + 1 ELSE lastAiElem

TranscriptDoneLastAiElem ==
  IF aiResponseBuffer # <<>> /\ aiResponseBuffer[1].done THEN 0
  ELSE IF TranscriptDoneFlushes /\ lastAiElem = 0 THEN Len(messagesSection) + 1
  ELSE lastAiElem

\* handleTranscriptDone: the buffer it leaves
TranscriptDoneKeepsBuffer == aiResponseBuffer

TranscriptDoneBuffer == <<>>

\* handleTranscriptDone: the user bubble reference it leaves
TranscriptDoneKeepsUserBubble == currentUserSpeechBubble

TranscriptDoneUserBubble == 0

\* handleTranscriptDone(data)
handleTranscriptDone ==
  /\ currentUserSpeechBubble' = TranscriptDoneUserBubble
  /\ IF TranscriptDoneFlushes
       THEN LET bufferedAIRawContent == aiResponseBuffer[1].content IN
            IF lastAiElem = 0
              THEN /\ messagesSection' =
                        createMessageBubble(messagesSection, "ai", bufferedAIRawContent)
                   /\ Observe("transcript_done", <<>>,
                              <<CreateOp("ai", Len(messagesSection) + 1, bufferedAIRawContent)>>)
              ELSE /\ messagesSection' =
                        updateMessageBubbleContent(messagesSection, lastAiElem,
                                                   bufferedAIRawContent)
                   /\ Observe("transcript_done", <<>>,
                              <<AppendOp("ai", lastAiElem, bufferedAIRawContent)>>)
       ELSE /\ UNCHANGED messagesSection
            /\ Observe("transcript_done", <<>>, <<>>)
  /\ userTranscriptFinalized' = TRUE
  /\ lastAiElem' = TranscriptDoneLastAiElem
  /\ aiResponseBuffer' = TranscriptDoneBuffer
  /\ UNCHANGED pendingTakeawayPayload
  /\ UNCHANGED exceptTurn

\* handleInputBufferCommitted: the flag it leaves.  The variant that does
\* not touch the flag, and the handler's assignment
CommittedKeepsFinalized == userTranscriptFinalized

CommittedFinalized == FALSE

\* handleInputBufferCommitted(data)
handleInputBufferCommitted ==
  /\ userTranscriptFinalized' = CommittedFinalized
  /\ aiResponseBuffer' = <<>>
  /\ UNCHANGED <<currentUserSpeechBubble, lastAiElem, pendingTakeawayPayload,
                 messagesSection>>
  /\ Observe("committed", <<>>, <<>>)
  /\ UNCHANGED exceptTurn

\* handleTakeawayRecommendation(data); payload is "null" (missing or without
\* a recommendations field), "emptyRecs" or "recs"
handleTakeawayRecommendation(payload) ==
  /\ pendingTakeawayPayload' = payload
  /\ UNCHANGED <<userTranscriptFinalized, aiResponseBuffer, currentUserSpeechBubble,
                 lastAiElem, messagesSection>>
  /\ Observe("takeaway", <<>>, <<>>)

\* a takeaway_recommendation message
TakeawayRecommendation ==
  /\ \E payload \in {"null", "emptyRecs", "recs"} : handleTakeawayRecommendation(payload)
  /\ UNCHANGED exceptTurn

\* resetStateAfterError(reason): releases both bubble references
resetStateAfterError ==
  /\ currentUserSpeechBubble' = 0
  /\ lastAiElem' = 0

\* handleServerError(data)
handleServerError ==
  /\ resetStateAfterError
  /\ UNCHANGED <<userTranscriptFinalized, aiResponseBuffer, pendingTakeawayPayload,
                 messagesSection>>
  /\ Observe("error", <<>>, <<>>)
  /\ UNCHANGED exceptTurn

\* handleWebSocketMessage: dispatch on data.type
TurnNext ==
  \/ TextDelta
  \/ handleTextDone
  \/ TranscriptDelta
  \/ handleTranscriptDone
  \/ handleInputBufferCommitted
  \/ TakeawayRecommendation
  \/ handleServerError

(***************************************************************************)
(* js/audio.js: playback queue.  A fragment is the base64 string of one    *)
(* audio_chunk message; what matters of it is how far it gets:             *)
(*   "empty"      base64ToArrayBuffer returns an empty buffer              *)
(*   "throwsSync" getAudioContext or decodeAudioData throws                *)
(*   "reject"     the decodeAudioData promise rejects                      *)
(*   "throwsLate" createBufferSource, connect or start throws              *)
(*   "ok"         the fragment is played                                   *)
(***************************************************************************)
FragmentKinds == {"ok", "empty", "throwsSync", "reject", "throwsLate"}

AudioInit ==
  /\ audioQueue = <<>>
  /\ isPlaying = FALSE
  /\ inflight = {}
  /\ enqueued = <<>>
  /\ started = <<>>
  /\ skipped = <<>>
  /\ lastAudio = "none"

\* audioQueue.shift()
QueuePop(q) == [chunk |-> q[Len(q)], rest |-> SubSeq(q, 1, Len(q) - 1)]

QueueShift(q) == [chunk |-> Head(q), rest |-> Tail(q)]

\* playNextAudioChunk() with the queue empty: the flag it leaves.  The
\* variant that leaves the flag set, and the function's assignment
DrainedStaysPlaying == TRUE

DrainedIsPlaying == FALSE

\* playNextAudioChunk() from its entry to its first await or its return: the
\* queue and flag it leaves, the fragment whose decode it awaits (if any) and
\* the fragments it gave up on the way.
RECURSIVE playNextAudioChunk(_)
playNextAudioChunk(q) ==
  IF q = <<>>
    THEN [audioQueue |-> <<>>, isPlaying |-> DrainedIsPlaying, decoding |-> {},
          skipped |-> <<>>]
    ELSE LET base64Audio == QueueShift(q).chunk
             rest == QueueShift(q).rest
         IN IF base64Audio.kind \in {"empty", "throwsSync"}
              THEN LET r == playNextAudioChunk(rest)
                   IN [r EXCEPT !.skipped = <<base64Audio.id>> \o @]
              ELSE [audioQueue |-> rest, isPlaying |-> TRUE,
                    decoding |-> {[frag |-> base64Audio, stage |-> "decoding"]},
                    skipped |-> <<>>]

\* the continuation after a failed decode or a throw in the playback setup
StallAfterFailure(q) ==
  [audioQueue |-> q, isPlaying |-> TRUE, decoding |-> {}, skipped |-> <<>>]

AfterFailure(q) == playNextAudioChunk(q)

\* playAudioChunk: the test that starts the drain
EnqueueAlwaysDrains == TRUE

EnqueueStartsDrain == ~isPlaying

\* playAudioChunk(base64Audio) with a falsy argument
playAudioChunkFalsy ==
  /\ Len(enqueued) < MaxFragments
  /\ lastAudio' = "enqueueFalsy"
  /\ UNCHANGED <<audioQueue, isPlaying, inflight, enqueued, started, skipped>>
  /\ UNCHANGED exceptAudio

\* playAudioChunk(base64Audio)
playAudioChunk(kind) ==
  LET base64Audio == [id |-> Len(enqueued) + 1, kind |-> kind]
      pushed == Append(audioQueue, base64Audio)
  IN /\ Len(enqueued) < MaxFragments
     /\ enqueued' = Append(enqueued, base64Audio)
     /\ lastAudio' = "enqueue"
     /\ UNCHANGED started
     /\ IF EnqueueStartsDrain
          THEN LET r == playNextAudioChunk(pushed)
               IN /\ audioQueue' = r.audioQueue
                  /\ isPlaying' = r.isPlaying
                  /\ inflight' = inflight \cup r.decoding
                  /\ skipped' = skipped \o r.skipped
          ELSE /\ audioQueue' = pushed
               /\ UNCHANGED <<isPlaying, inflight, skipped>>
     /\ UNCHANGED exceptAudio

\* handleAudioChunk(data): an audio_chunk message
handleAudioChunk ==
  \/ playAudioChunkFalsy
  \/ \E kind \in FragmentKinds : playAudioChunk(kind)

\* playNextAudioChunk resumed after `await ctx.decodeAudioData(...)`
DecodeSettled ==
  \E c \in inflight :
    /\ c.stage = "decoding"
    /\ lastAudio' = "decoded"
    /\ UNCHANGED enqueued
    /\ IF c.frag.kind \in {"reject", "throwsLate"}
         THEN LET r == AfterFailure(audioQueue)
              IN /\ audioQueue' = r.audioQueue
                 /\ isPlaying' = r.isPlaying
                 /\ inflight' = (inflight \ {c}) \cup r.decoding
                 /\ skipped' = (skipped \o <<c.frag.id>>) \o r.skipped
                 /\ UNCHANGED started
         ELSE /\ inflight' = (inflight \ {c}) \cup {[frag |-> c.frag, stage |-> "playing"]}
              /\ started' = Append(started, c.frag.id)
              /\ UNCHANGED <<audioQueue, isPlaying, skipped>>
    /\ UNCHANGED exceptAudio

\* what the end of a fragment's playback runs: the variant with no onended
\* handler, and source.onended = playNextAudioChunk
EndedIgnored(q) ==
  [audioQueue |-> q, isPlaying |-> isPlaying, decoding |-> {}, skipped |-> <<>>]

OnEnded(q) == playNextAudioChunk(q)

\* the ended event of a fragment that is playing
PlaybackEnded ==
  \E c \in inflight :
    /\ c.stage = "playing"
    /\ lastAudio' = "ended"
    /\ LET r == OnEnded(audioQueue)
       IN /\ audioQueue' = r.audioQueue
          /\ isPlaying' = r.isPlaying
          /\ inflight' = (inflight \ {c}) \cup r.decoding
          /\ skipped' = skipped \o r.skipped
    /\ UNCHANGED <<enqueued, started>>
    /\ UNCHANGED exceptAudio

AudioNext ==
  \/ handleAudioChunk
  \/ DecodeSettled
  \/ PlaybackEnded

(***************************************************************************)
(* The reconnecting client: initializeWebSocket, ws.onopen, ws.onclose,    *)
(* toggleRecording and the visibilitychange handler.  One run is one page  *)
(* load.  Delays are kept in units of 1/DelayScale ms so that              *)
(* reconnectDelay * Math.pow(1.5, reconnectAttempts) stays an integer.     *)
(***************************************************************************)
maxReconnectAttempts == 5
BaseReconnectDelay == 1000
MaxReconnectDelay == 10000

RECURSIVE Pow(_, _)
Pow(b, n) == IF n = 0 THEN 1 ELSE b * Pow(b, n - 1)

DelayScale == Pow(2, maxReconnectAttempts)

Min(a, b) == IF a <= b THEN a ELSE b

ConnInit ==
  /\ ws = "undefined"
  /\ replaced = 0
  /\ nSockets = 0
  /\ reconnectAttempts = 0
  /\ reconnectDelay = BaseReconnectDelay
  /\ timers = <<>>
  /\ visibilityState = "visible"
  /\ isRecording = FALSE
  /\ sessionActive = FALSE
  /\ toggleWaiting = FALSE
  /\ refreshRequired = FALSE
  /\ scheduled = <<>>
  /\ tornDown = FALSE
  /\ lastConn = "none"

\* initializeWebSocket(): closes the current socket if it is open or
\* connecting (its close event comes later; a closing socket has its close
\* event pending already), then creates a new one.  The handlers of a socket
\* refer to the module variables only, so a replaced socket is known by its
\* pending close event alone.
initializeWebSocket ==
  /\ nSockets < MaxSockets
  /\ replaced' = IF ws \in {"OPEN", "CONNECTING", "CLOSING"} THEN replaced + 1 ELSE replaced
  /\ ws' = "CONNECTING"
  /\ nSockets' = nSockets + 1

\* ws.onopen: the counter it leaves
OpenKeepsAttempts == reconnectAttempts

OpenResetsAttempts == 0

\* ws.onopen
SocketOpens ==
  /\ ws = "CONNECTING"
  /\ ws' = "OPEN"
  /\ reconnectAttempts' = OpenResetsAttempts
  /\ reconnectDelay' = BaseReconnectDelay
  /\ scheduled' = <<>>
  /\ lastConn' = "open"
  /\ UNCHANGED <<replaced, nSockets, timers, visibilityState, isRecording, sessionActive,
                 toggleWaiting, refreshRequired, tornDown>>
  /\ UNCHANGED exceptConn

\* Math.min(reconnectDelay * Math.pow(1.5, reconnectAttempts), 10000)
BackoffDoubling ==
  Min(reconnectDelay * Pow(2, reconnectAttempts) * DelayScale,
      MaxReconnectDelay * DelayScale)

Backoff ==
  Min((reconnectDelay * Pow(3, reconnectAttempts) * DelayScale) \div Pow(2, reconnectAttempts),
      MaxReconnectDelay * DelayScale)

\* setTimeout(..., delay): the pending timeouts are kept sorted by delay
RECURSIVE Insert(_, _)
Insert(q, d) ==
  IF q = <<>> THEN <<d>>
  ELSE IF d <= Head(q) THEN <<d>> \o q
  ELSE <<Head(q)>> \o Insert(Tail(q), d)

Remove(q, i) == [j \in 1..(Len(q) - 1) |-> IF j < i THEN q[j] ELSE q[j + 1]]

\* ws.onclose: is a reconnect scheduled?
CloseSchedulesAlways == visibilityState = "visible"

CloseSchedules == visibilityState = "visible" /\ reconnectAttempts < maxReconnectAttempts

\* ws.onclose
onclose ==
  /\ sessionActive' = FALSE
  /\ isRecording' = FALSE
  /\ IF CloseSchedules
       THEN /\ timers' = Insert(timers, Backoff)
            /\ scheduled' = Append(scheduled, Backoff)
            /\ reconnectAttempts' = reconnectAttempts + 1
            /\ UNCHANGED refreshRequired
       ELSE IF reconnectAttempts >= maxReconnectAttempts
         THEN /\ refreshRequired' = TRUE
              /\ UNCHANGED <<timers, scheduled, reconnectAttempts>>
         ELSE UNCHANGED <<timers, scheduled, reconnectAttempts, refreshRequired>>
  /\ lastConn' = "close"
  /\ UNCHANGED <<nSockets, reconnectDelay, visibilityState, toggleWaiting, tornDown>>

\* the close event of the current socket: the connection failed or was lost
SocketCloses ==
  /\ ws \in {"CONNECTING", "OPEN", "CLOSING"}
  /\ ws' = "CLOSED"
  /\ UNCHANGED replaced
  /\ onclose
  /\ UNCHANGED exceptConn

\* the close event of a socket that initializeWebSocket has replaced
ReplacedSocketCloses ==
  /\ replaced > 0
  /\ replaced' = replaced - 1
  /\ UNCHANGED ws
  /\ onclose
  /\ UNCHANGED exceptConn

\* the setTimeout callback of ws.onclose
TimerFires ==
  \E i \in DOMAIN timers :
    /\ timers' = Remove(timers, i)
    /\ IF visibilityState = "visible"
         THEN initializeWebSocket
         ELSE UNCHANGED <<ws, replaced, nSockets>>
    /\ lastConn' = "timer"
    /\ UNCHANGED <<reconnectAttempts, reconnectDelay, visibilityState, isRecording,
                   sessionActive, toggleWaiting, refreshRequired, scheduled, tornDown>>
    /\ UNCHANGED exceptConn

\* the visibilitychange listener, run when the page is hidden or shown
VisibilityChange ==
  /\ visibilityState' = IF visibilityState = "visible" THEN "hidden" ELSE "visible"
  /\ IF visibilityState' = "visible" /\ ws # "OPEN" /\ ~isRecording
       THEN initializeWebSocket
       ELSE UNCHANGED <<ws, replaced, nSockets>>
  /\ lastConn' = "visibility"
  /\ UNCHANGED <<reconnectAttempts, reconnectDelay, timers, isRecording, sessionActive,
                 toggleWaiting, refreshRequired, scheduled, tornDown>>
  /\ UNCHANGED exceptConn

\* toggleRecording() up to its first await.  Once the refresh control is shown
\* a click reloads the page, which ends the run.
toggleRecording ==
  /\ ~refreshRequired
  /\ ~toggleWaiting
  /\ IF ~isRecording
       THEN IF ws # "OPEN"
              THEN /\ initializeWebSocket
                   /\ toggleWaiting' = TRUE
                   /\ UNCHANGED isRecording
              ELSE /\ \E micGranted \in BOOLEAN : isRecording' = micGranted
                   /\ UNCHANGED <<ws, replaced, nSockets, toggleWaiting>>
       ELSE /\ isRecording' = FALSE
            /\ UNCHANGED <<ws, replaced, nSockets, toggleWaiting>>
  /\ lastConn' = "toggle"
  /\ tornDown' = FALSE
  /\ UNCHANGED <<reconnectAttempts, reconnectDelay, timers, visibilityState, sessionActive,
                 refreshRequired, scheduled>>
  /\ UNCHANGED exceptConn

\* toggleRecording() resumed after its 500 ms wait
toggleRecordingResumes ==
  /\ toggleWaiting
  /\ toggleWaiting' = FALSE
  /\ IF ws # "OPEN"
       THEN UNCHANGED isRecording
       ELSE \E micGranted \in BOOLEAN : isRecording' = micGranted
  /\ lastConn' = "toggleResumed"
  /\ UNCHANGED <<ws, replaced, nSockets, reconnectAttempts, reconnectDelay, timers,
                 visibilityState, sessionActive, refreshRequired, scheduled, tornDown>>
  /\ UNCHANGED exceptConn

\* ws.onmessage, case 'session.created'
SessionCreated ==
  /\ ws = "OPEN"
  /\ ~sessionActive
  /\ sessionActive' = TRUE
  /\ lastConn' = "session"
  /\ UNCHANGED <<ws, replaced, nSockets, reconnectAttempts, reconnectDelay, timers,
                 visibilityState, isRecording, toggleWaiting, refreshRequired, scheduled,
                 tornDown>>
  /\ UNCHANGED exceptConn

\* cleanup(), the beforeunload handler: closes the socket if it is open (the
\* close event comes later).  The page lives on when the navigation that
\* raised beforeunload is cancelled or ends in a download.
cleanup ==
  /\ ws' = IF ws = "OPEN" THEN "CLOSING" ELSE ws
  /\ isRecording' = FALSE
  /\ tornDown' = (tornDown \/ ws = "OPEN")
  /\ lastConn' = "cleanup"
  /\ UNCHANGED <<replaced, nSockets, reconnectAttempts, reconnectDelay, timers,
                 visibilityState, sessionActive, toggleWaiting, refreshRequired, scheduled>>
  /\ UNCHANGED exceptConn

ConnNext ==
  \/ cleanup
  \/ SocketOpens
  \/ SocketCloses
  \/ ReplacedSocketCloses
  \/ TimerFires
  \/ VisibilityChange
  \/ toggleRecording
  \/ toggleRecordingResumes
  \/ SessionCreated

(***************************************************************************)
(* js/wsclient.js: the transport.  connect() gives every socket it creates *)
(* the same four handlers, which act on the module variables whatever the  *)
(* socket they belong to; a socket that disconnect() dropped or that a new *)
(* connect() replaced still delivers its events.                           *)
(***************************************************************************)
WsInit ==
  /\ sockets = <<>>
  /\ wsRef = 0
  /\ wsConnected = FALSE
  /\ connectionState = "DISCONNECTED"
  /\ sendReturn = "none"
  /\ handedTo = 0
  /\ eventsAtOpen = 0
  /\ lastWs = "none"

\* isConnected(): the variant that trusts the flag alone
isConnectedFlagOnly == wsConnected /\ wsRef # 0

\* isConnected()
isConnected == wsConnected /\ wsRef # 0 /\ sockets[wsRef] = "OPEN"

\* connect()
connect ==
  IF isConnected
    THEN UNCHANGED <<sockets, wsRef, wsConnected, connectionState>>
    ELSE /\ Len(sockets) < MaxConnects
         /\ connectionState' = "CONNECTING"
         /\ sockets' = Append(sockets, "CONNECTING")
         /\ wsRef' = Len(sockets) + 1
         /\ UNCHANGED wsConnected

\* disconnect(): ws.close() starts the closing handshake, the close event
\* comes later
disconnect ==
  IF wsRef = 0
    THEN UNCHANGED <<sockets, wsRef, wsConnected, connectionState>>
    ELSE /\ sockets' = [sockets EXCEPT ![wsRef] =
                          IF @ \in {"CONNECTING", "OPEN"} THEN "CLOSING" ELSE @]
         /\ wsRef' = 0
         /\ wsConnected' = FALSE
         /\ connectionState' = "DISCONNECTED"

\* click on the connect button; updateConnectionUI disables the button
\* while the state is "CONNECTING"
connectBtnClick ==
  /\ connectionState # "CONNECTING"
  /\ IF isConnected THEN disconnect ELSE connect
  /\ lastWs' = "click"
  /\ UNCHANGED <<sendReturn, handedTo, eventsAtOpen>>
  /\ UNCHANGED exceptWs

\* ws.onopen of socket i
WsOpens ==
  \E i \in DOMAIN sockets :
    /\ sockets[i] = "CONNECTING"
    /\ sockets' = [sockets EXCEPT ![i] = "OPEN"]
    /\ wsConnected' = TRUE
    /\ connectionState' = "CONNECTED"
    /\ eventsAtOpen' = nEvents
    /\ lastWs' = "open"
    /\ UNCHANGED <<wsRef, sendReturn, handedTo>>
    /\ UNCHANGED exceptWs

\* ws.onclose (ws.onerror, when it comes first, sets the same state)
wsOnclose ==
  /\ wsConnected' = FALSE
  /\ connectionState' = "DISCONNECTED"

\* the connection of socket i fails or is lost: error and close events
WsFails ==
  \E i \in DOMAIN sockets :
    /\ sockets[i] \in {"CONNECTING", "OPEN"}
    /\ sockets' = [sockets EXCEPT ![i] = "CLOSED"]
    /\ wsOnclose
    /\ lastWs' = "close"
    /\ UNCHANGED <<wsRef, sendReturn, handedTo, eventsAtOpen>>
    /\ UNCHANGED exceptWs

\* the server starts the closing handshake of socket i: no event yet
WsServerCloses ==
  \E i \in DOMAIN sockets :
    /\ sockets[i] = "OPEN"
    /\ sockets' = [sockets EXCEPT ![i] = "CLOSING"]
    /\ lastWs' = "closing"
    /\ UNCHANGED <<wsRef, wsConnected, connectionState, sendReturn, handedTo, eventsAtOpen>>
    /\ UNCHANGED exceptWs

\* the closing handshake of socket i ends: close event
WsCloseCompletes ==
  \E i \in DOMAIN sockets :
    /\ sockets[i] = "CLOSING"
    /\ sockets' = [sockets EXCEPT ![i] = "CLOSED"]
    /\ wsOnclose
    /\ lastWs' = "close"
    /\ UNCHANGED <<wsRef, sendReturn, handedTo, eventsAtOpen>>
    /\ UNCHANGED exceptWs

\* ws.send(data) on socket i: throws InvalidStateError while the socket is
\* connecting, queues the data on an open socket, and drops it without an
\* exception once the socket is closing or closed
wsSend(i) ==
  IF sockets[i] = "CONNECTING" THEN "throws"
  ELSE IF sockets[i] = "OPEN" THEN "sent"
  ELSE "dropped"

\* sendTextMessage(text)
sendTextMessage(text) ==
  /\ IF text = "" \/ ~isConnected
       THEN /\ sendReturn' = "false"
            /\ handedTo' = 0
       ELSE /\ sendReturn' = IF wsSend(wsRef) = "throws" THEN "throws" ELSE "true"
            /\ handedTo' = IF wsSend(wsRef) = "sent" THEN wsRef ELSE 0
  /\ lastWs' = "send"
  /\ UNCHANGED <<sockets, wsRef, wsConnected, connectionState, eventsAtOpen>>
  /\ UNCHANGED exceptWs

SendText ==
  \E text \in {"", "text"} : sendTextMessage(text)

\* sendSpeechStartSignal() and sendSpeechEndSignal(): the same send inside
\* a try block whose catch returns false
sendSpeechSignal ==
  /\ IF ~isConnected
       THEN /\ sendReturn' = "false"
            /\ handedTo' = 0
       ELSE /\ sendReturn' = IF wsSend(wsRef) = "throws" THEN "false" ELSE "true"
            /\ handedTo' = IF wsSend(wsRef) = "sent" THEN wsRef ELSE 0
  /\ lastWs' = "signal"
  /\ UNCHANGED <<sockets, wsRef, wsConnected, connectionState, eventsAtOpen>>
  /\ UNCHANGED exceptWs

\* handleWebSocketMessage, catch branch: JSON.parse threw
MalformedMessage ==
  /\ resetStateAfterError
  /\ UNCHANGED <<userTranscriptFinalized, aiResponseBuffer, pendingTakeawayPayload,
                 messagesSection>>
  /\ Observe("malformed", <<>>, <<>>)
  /\ UNCHANGED exceptTurn

\* ws.onmessage of an open socket
Deliver ==
  /\ \E i \in DOMAIN sockets : sockets[i] = "OPEN"
  /\ nEvents < MaxSessionEvents
  /\ (TurnNext \/ MalformedMessage)

\* resetStateAfterError(reason) as the application file defines it
resetStateAfterErrorMain ==
  /\ currentUserSpeechBubble' = 0
  /\ lastAiElem' = 0
  /\ userTranscriptFinalized' = TRUE
  /\ aiResponseBuffer' = <<>>

\* handleServerError(data), resetStateAfterError being the application's
handleServerErrorMain ==
  /\ resetStateAfterErrorMain
  /\ UNCHANGED <<pendingTakeawayPayload, messagesSection>>
  /\ Observe("error", <<>>, <<>>)
  /\ UNCHANGED exceptTurn

\* handleWebSocketMessage: dispatch on data.type, the error type going to
\* handleServerErrorMain
MainTurnNext ==
  \/ TextDelta
  \/ handleTextDone
  \/ TranscriptDelta
  \/ handleTranscriptDone
  \/ handleInputBufferCommitted
  \/ TakeawayRecommendation
  \/ handleServerErrorMain

\* ws.onmessage of an open socket, errors handled by handleServerErrorMain
DeliverMain ==
  /\ \E i \in DOMAIN sockets : sockets[i] = "OPEN"
  /\ nEvents < MaxSessionEvents
  /\ MainTurnNext

\* the connect button and the socket events
TransportNext ==
  \/ connectBtnClick
  \/ WsOpens
  \/ WsFails
  \/ WsServerCloses
  \/ WsCloseCompletes

(***************************************************************************)
(* The earlier WebSocket module (connection control with a timeout):       *)
(* handleConnectionToggle, connectToServer, disconnectFromServer,          *)
(* handleConnectionError, initWebSocket, handleWebSocketDisconnectOrError. *)
(* It has the same module variables ws and wsConnected and the same        *)
(* connectionState of ui.js.                                               *)
(***************************************************************************)
ToggleInit ==
  /\ connectionTimeouts = {}
  /\ userInitiatedDisconnect = FALSE
  /\ attempts = <<>>
  /\ firedTimeout = 0

\* initializeUI() calls updateConnectionUI("DISCONNECTED"), which disables
\* the record button
RecordInit ==
  /\ recordBtnDisabled = TRUE
  /\ captureCallbacks = {}

\* what the capture holds
captureResources == <<audioStream, sourceNode, audioWorkletNode, scriptProcessorNode,
                      captureIsRecording>>

\* the coordinator's variables that resetChatStateForNewCapture leaves alone
turnRest == <<userTranscriptFinalized, aiResponseBuffer, pendingTakeawayPayload,
              messagesSection, lastEvent, ops, received, window, discarded, nEvents,
              turn, transcript>>

\* updateConnectionUI(state) of ui.js: the state, and the record button
\* enabled only when connected
updateConnectionUI(state) ==
  /\ connectionState' = state
  /\ recordBtnDisabled' = (state # "CONNECTED")

\* a sequence without its k-th element
RemoveAt(seq, k) ==
  SubSeq(seq, 1, k - 1) \o SubSeq(seq, k + 1, Len(seq))

\* the setups after the call k (0: a call that has not awaited yet) has
\* suspended in the await pc, and after it has returned
SetupSuspended(k, pc) ==
  IF k = 0 THEN Append(setups, pc) ELSE [setups EXCEPT ![k] = pc]

SetupReturned(k) ==
  IF k = 0 THEN setups ELSE RemoveAt(setups, k)

\* cleanupAudioProcessing(reason)
cleanupAudioProcessing ==
  /\ captureIsRecording' = FALSE
  /\ audioStream' = FALSE
  /\ audioWorkletNode' = FALSE
  /\ scriptProcessorNode' = FALSE
  /\ sourceNode' = FALSE

\* handleAudioCaptureError(errorMessage), ending the call k
handleAudioCaptureError(k) ==
  /\ cleanupAudioProcessing
  /\ isAudioCaptureActive' = FALSE
  /\ recordBtnDisabled' = FALSE
  /\ lastCapture' = "error"
  /\ setups' = SetupReturned(k)

\* the call k suspends in the await pc
CaptureAwaits(k, pc, active, disabled) ==
  /\ k = 0 => Len(setups) < MaxStarts
  /\ setups' = SetupSuspended(k, pc)
  /\ isAudioCaptureActive' = active
  /\ recordBtnDisabled' = disabled
  /\ lastCapture' = "await"
  /\ UNCHANGED captureResources

\* the earlier setupAudioProcessing, from sourceNode.connect(processorNode)
\* on, and setupCapture after it: a TypeError when a cleanup has set
\* sourceNode to null during an await, which the catch turns into false
CaptureConnects(k, source, stream, worklet, script) ==
  IF source
    THEN /\ sourceNode' = TRUE
         /\ audioStream' = stream
         /\ audioWorkletNode' = worklet
         /\ scriptProcessorNode' = script
         /\ captureIsRecording' = TRUE
         /\ lastCapture' = "recording"
         /\ setups' = SetupReturned(k)
         /\ UNCHANGED <<isAudioCaptureActive, recordBtnDisabled>>
    ELSE handleAudioCaptureError(k)

\* the earlier setupScriptProcessor, then the rest of setupAudioProcessing
CaptureFallback(k, source, stream, worklet, scriptOk) ==
  IF scriptOk
    THEN CaptureConnects(k, source, stream, worklet, TRUE)
    ELSE handleAudioCaptureError(k)

\* isAudioCaptureActive = true; UI.updateButtonUI(true); await
\* setupCapture(): the earlier setupAudioProcessing up to its first await,
\* called with the flag and the socket as they are now; a result that is
\* not true goes to handleAudioCaptureError
setupCapture(k, connected, open, ctx) ==
  IF captureIsRecording \/ sourceNode \/ ~connected \/ ~open \/ ctx = "throws"
    THEN handleAudioCaptureError(k)
    ELSE CaptureAwaits(k, IF ctx = "running" THEN "getUserMedia" ELSE "resume",
                       TRUE, FALSE)

\* connectToServer(): updateConnectionUI("CONNECTING"), then initWebSocket
\* with the callback updateConnectionUI("CONNECTED"), then the timeout.
\* initWebSocket returns early for a socket that is open (after calling the
\* callback) or connecting (the callback is dropped).
connectToServer ==
  /\ Len(attempts) < MaxConnects
  /\ IF wsRef # 0 /\ sockets[wsRef] \in {"OPEN", "CONNECTING"}
       THEN /\ updateConnectionUI(IF sockets[wsRef] = "OPEN" THEN "CONNECTED"
                                                               ELSE "CONNECTING")
            /\ UNCHANGED <<sockets, wsRef>>
       ELSE /\ updateConnectionUI("CONNECTING")
            /\ sockets' = Append(sockets, "CONNECTING")
            /\ wsRef' = Len(sockets) + 1
  /\ attempts' = Append(attempts, wsRef')
  /\ connectionTimeouts' = connectionTimeouts \cup {Len(attempts) + 1}
  /\ UNCHANGED <<wsConnected, userInitiatedDisconnect>>

\* disconnectFromServer(): sets the flag, then WebSocket.getWebSocket()
\* throws a TypeError (WebSocket is the browser's constructor here, the
\* module imports no namespace of that name), so nothing else happens
disconnectFromServer ==
  /\ userInitiatedDisconnect' = TRUE
  /\ UNCHANGED <<sockets, wsRef, wsConnected, connectionState, recordBtnDisabled,
                 attempts, connectionTimeouts>>

\* handleConnectionToggle(): click on the connect button, which
\* updateConnectionUI disables while the state is "CONNECTING"
handleConnectionToggle ==
  /\ connectionState # "CONNECTING"
  /\ IF connectionState = "DISCONNECTED"
       THEN connectToServer /\ lastWs' = "connect"
       ELSE disconnectFromServer /\ lastWs' = "disconnect"
  /\ UNCHANGED <<sendReturn, handedTo, eventsAtOpen, firedTimeout>>
  /\ UNCHANGED <<captureVars, captureCallbacks, turnVars>>
  /\ UNCHANGED exceptRecord

\* handleConnectionError(message)
handleConnectionError == updateConnectionUI("DISCONNECTED")

\* the setTimeout callback of connectToServer: does it force the failure?
TimeoutApplies == connectionState = "CONNECTING"

\* the 10 s timeouts fire in the order they were armed
ConnectionTimeoutFires ==
  \E k \in connectionTimeouts :
    /\ \A j \in connectionTimeouts : k <= j
    /\ connectionTimeouts' = connectionTimeouts \ {k}
    /\ firedTimeout' = k
    /\ IF TimeoutApplies THEN handleConnectionError
                         ELSE UNCHANGED <<connectionState, recordBtnDisabled>>
    /\ lastWs' = "timeout"
    /\ UNCHANGED <<sockets, wsRef, wsConnected, sendReturn, handedTo, eventsAtOpen,
                   userInitiatedDisconnect, attempts>>
    /\ UNCHANGED <<captureVars, captureCallbacks, turnVars>>
    /\ UNCHANGED exceptRecord

\* ws.onopen of initWebSocket: sets the flag and calls the socket's
\* callback: updateConnectionUI("CONNECTED") for a socket of
\* connectToServer, the start of the capture for a socket of startCapture
ToggleSocketOpens ==
  \E i \in DOMAIN sockets :
    /\ sockets[i] = "CONNECTING"
    /\ sockets' = [sockets EXCEPT ![i] = "OPEN"]
    /\ wsConnected' = TRUE
    /\ IF i \in captureCallbacks
         THEN /\ \E ctx \in {"running", "suspended", "throws"} :
                   setupCapture(0, TRUE, sockets'[wsRef] = "OPEN", ctx)
              /\ UNCHANGED <<connectionState, workletModuleLoaded>>
         ELSE /\ updateConnectionUI("CONNECTED")
              /\ UNCHANGED captureVars
    /\ lastWs' = "open"
    /\ UNCHANGED <<wsRef, sendReturn, handedTo, eventsAtOpen>>
    /\ UNCHANGED <<toggleVars, captureCallbacks, turnVars>>
    /\ UNCHANGED exceptRecord

\* handleWebSocketDisconnectOrError(type, eventOrError)
handleWebSocketDisconnectOrError == wsConnected' = FALSE

\* the connection of socket i fails or is closed by the server
ToggleSocketCloses ==
  \E i \in DOMAIN sockets :
    /\ sockets[i] \in {"CONNECTING", "OPEN", "CLOSING"}
    /\ sockets' = [sockets EXCEPT ![i] = "CLOSED"]
    /\ handleWebSocketDisconnectOrError
    /\ lastWs' = "close"
    /\ UNCHANGED <<wsRef, connectionState, recordBtnDisabled, sendReturn, handedTo,
                   eventsAtOpen>>
    /\ UNCHANGED <<toggleVars, captureVars, captureCallbacks, turnVars>>
    /\ UNCHANGED exceptRecord

ToggleNext ==
  \/ handleConnectionToggle
  \/ ConnectionTimeoutFires
  \/ ToggleSocketOpens
  \/ ToggleSocketCloses

(***************************************************************************)
(* The capture control of the earlier modules: toggleAudioCapture,         *)
(* startCapture, setupCapture, stopCapture and handleAudioCaptureError,    *)
(* over the earlier WebSocket module and the earlier setupAudioProcessing, *)
(* whose catch branch returns false and leaves the cleanup to              *)
(* handleAudioCaptureError.                                                *)
(***************************************************************************)
\* resetChatStateForNewCapture()
resetChatStateForNewCapture ==
  /\ currentUserSpeechBubble' = 0
  /\ lastAiElem' = 0

\* startCapture(), from resetChatStateForNewCapture on (k: the call, 0
\* when it has not awaited); initWebSocket calls the callback at once when
\* the socket is open, drops it when the socket is connecting, and creates
\* a socket otherwise
startCaptureProceeds(k, ctx) ==
  /\ resetChatStateForNewCapture
  /\ IF wsConnected
       THEN /\ setupCapture(k, TRUE, sockets[wsRef] = "OPEN", ctx)
            /\ UNCHANGED <<sockets, wsRef, captureCallbacks>>
       ELSE IF wsRef # 0 /\ sockets[wsRef] = "OPEN"
         THEN /\ setupCapture(k, FALSE, TRUE, ctx)
              /\ UNCHANGED <<sockets, wsRef, captureCallbacks>>
         ELSE /\ IF wsRef # 0 /\ sockets[wsRef] = "CONNECTING"
                   THEN UNCHANGED <<sockets, wsRef, captureCallbacks>>
                   ELSE /\ Len(sockets) < MaxConnects
                        /\ sockets' = Append(sockets, "CONNECTING")
                        /\ wsRef' = Len(sockets) + 1
                        /\ captureCallbacks' = captureCallbacks \cup {Len(sockets) + 1}
              /\ recordBtnDisabled' = TRUE
              /\ lastCapture' = "waitsSocket"
              /\ setups' = SetupReturned(k)
              /\ UNCHANGED isAudioCaptureActive
              /\ UNCHANGED captureResources

\* startCapture(): disables the record button, resumes a suspended context
startCapture(ctx) ==
  IF ctx = "throws"
    THEN /\ handleAudioCaptureError(0)
         /\ UNCHANGED <<sockets, wsRef, captureCallbacks, currentUserSpeechBubble,
                        lastAiElem>>
    ELSE IF ctx = "suspended"
      THEN /\ CaptureAwaits(0, "startResume", isAudioCaptureActive, TRUE)
           /\ UNCHANGED <<sockets, wsRef, captureCallbacks, currentUserSpeechBubble,
                          lastAiElem>>
      ELSE startCaptureProceeds(0, ctx)

\* stopCapture()
stopCapture ==
  /\ isAudioCaptureActive' = FALSE
  /\ recordBtnDisabled' = FALSE
  /\ cleanupAudioProcessing
  /\ lastCapture' = "stop"
  /\ UNCHANGED <<setups, sockets, wsRef, captureCallbacks, currentUserSpeechBubble,
                 lastAiElem>>

\* toggleAudioCapture(): click on the record button
toggleAudioCapture ==
  /\ ~recordBtnDisabled
  /\ IF isAudioCaptureActive
       THEN stopCapture
       ELSE \E ctx \in {"running", "suspended", "throws"} : startCapture(ctx)
  /\ UNCHANGED <<wsConnected, connectionState, sendReturn, handedTo, eventsAtOpen,
                 lastWs, workletModuleLoaded>>
  /\ UNCHANGED <<toggleVars, turnRest>>
  /\ UNCHANGED exceptRecord

\* await ctx.resume() of startCapture settles for the call k
StartResumeSettles ==
  \E k \in DOMAIN setups, running \in BOOLEAN :
    /\ setups[k] = "startResume"
    /\ IF running
         THEN startCaptureProceeds(k, "running")
         ELSE /\ handleAudioCaptureError(k)
              /\ UNCHANGED <<sockets, wsRef, captureCallbacks, currentUserSpeechBubble,
                             lastAiElem>>
    /\ UNCHANGED <<wsConnected, connectionState, sendReturn, handedTo, eventsAtOpen,
                   lastWs, workletModuleLoaded>>
    /\ UNCHANGED <<toggleVars, turnRest>>
    /\ UNCHANGED exceptRecord

\* await ctx.resume() of the earlier setupAudioProcessing settles
SetupResumeSettles ==
  \E k \in DOMAIN setups, running \in BOOLEAN :
    /\ setups[k] = "resume"
    /\ IF running
         THEN CaptureAwaits(k, "getUserMedia", isAudioCaptureActive, recordBtnDisabled)
         ELSE handleAudioCaptureError(k)
    /\ UNCHANGED <<wsVars, toggleVars, turnVars, workletModuleLoaded, captureCallbacks>>
    /\ UNCHANGED exceptRecord

\* await getUserMedia of the earlier setupAudioProcessing settles; then
\* createMediaStreamSource and setupAudioWorklet up to its await of
\* addModule, or the fallback when there is no worklet facility
SetupGetUserMediaSettles ==
  \E k \in DOMAIN setups, granted \in BOOLEAN, sourceOk \in BOOLEAN,
     workletSupported \in BOOLEAN, scriptOk \in BOOLEAN :
    /\ setups[k] = "getUserMedia"
    /\ IF ~granted \/ ~sourceOk
         THEN handleAudioCaptureError(k)
         ELSE IF workletSupported
           THEN /\ setups' = [setups EXCEPT ![k] = "addModule"]
                /\ audioStream' = TRUE
                /\ sourceNode' = TRUE
                /\ lastCapture' = "await"
                /\ UNCHANGED <<audioWorkletNode, scriptProcessorNode, captureIsRecording,
                               isAudioCaptureActive, recordBtnDisabled>>
           ELSE CaptureFallback(k, TRUE, TRUE, audioWorkletNode, scriptOk)
    /\ UNCHANGED <<wsVars, toggleVars, turnVars, workletModuleLoaded, captureCallbacks>>
    /\ UNCHANGED exceptRecord

\* await addModule of the earlier setupAudioWorklet settles; then the rest
\* of setupAudioWorklet and of setupAudioProcessing
SetupAddModuleSettles ==
  \E k \in DOMAIN setups, workletOk \in BOOLEAN, scriptOk \in BOOLEAN :
    /\ setups[k] = "addModule"
    /\ IF workletOk
         THEN CaptureConnects(k, sourceNode, audioStream, TRUE, scriptProcessorNode)
         ELSE CaptureFallback(k, sourceNode, audioStream, audioWorkletNode, scriptOk)
    /\ UNCHANGED <<wsVars, toggleVars, turnVars, workletModuleLoaded, captureCallbacks>>
    /\ UNCHANGED exceptRecord

RecordNext ==
  \/ toggleAudioCapture
  \/ StartResumeSettles
  \/ SetupResumeSettles
  \/ SetupGetUserMediaSettles
  \/ SetupAddModuleSettles

(***************************************************************************)
(* The audio module's capture: startAudioCapture, stopAudioCapture,        *)
(* setupAudioProcessing, setupAudioWorklet, setupScriptProcessor and       *)
(* cleanupAudioResources.  setupAudioProcessing is an async function: it   *)
(* runs up to an await, and the rest runs when the awaited promise         *)
(* settles, other handlers running in between.  What the browser answers   *)
(* (permission, devices, node creation) is an input of the step.           *)
(***************************************************************************)
CaptureInit ==
  /\ audioStream = FALSE
  /\ sourceNode = FALSE
  /\ audioWorkletNode = FALSE
  /\ scriptProcessorNode = FALSE
  /\ captureIsRecording = FALSE
  /\ isAudioCaptureActive = FALSE
  /\ workletModuleLoaded = FALSE
  /\ setups = <<>>
  /\ lastCapture = "none"

BatchStateInit ==
  /\ audioChunkBuffer = <<>>
  /\ audioChunkTimer = FALSE
  /\ mailbox = <<>>
  /\ framesLog = <<>>
  /\ sealedAt = 0
  /\ batches = <<>>
  /\ nPosted = 0
  /\ timerSealedAt = 0
  /\ releaseOps = {}
  /\ captureIdle = FALSE

\* the history of the messages handed to the socket is kept only by the
\* specification that starts with speech.on
BatchInit ==
  /\ BatchStateInit
  /\ speech = [on |-> FALSE, open |-> FALSE, sent |-> "none"]

\* speech.sent: the type of the message that the step taken last handed to
\* the socket, "none" if it sent none.  speech.open: the last signal sent was
\* a speech_start.
NoSend == [speech EXCEPT !.sent = "none"]

Sends(type, open) ==
  IF speech.on THEN [speech EXCEPT !.sent = type, !.open = open] ELSE speech

\* sendSpeechStartSignal(): sends when the transport is connected
sendSpeechStartSignal(connected) ==
  IF connected THEN Sends("speech_start", TRUE) ELSE NoSend

\* sendSpeechEndSignal(): sends when the transport is connected
sendSpeechEndSignal(connected) ==
  IF connected THEN Sends("speech_end", FALSE) ELSE NoSend

\* what cleanupAudioResources releases: each step is guarded by the
\* variable it then sets to null
CleanupOps ==
  (IF audioChunkTimer THEN {"clearInterval"} ELSE {})
  \cup (IF sourceNode THEN {"sourceNode.disconnect"} ELSE {})
  \cup (IF audioWorkletNode THEN {"audioWorkletNode.disconnect"} ELSE {})
  \cup (IF scriptProcessorNode THEN {"scriptProcessorNode.disconnect"} ELSE {})
  \cup (IF audioStream THEN {"track.stop"} ELSE {})

\* cleanupAudioResources()
cleanupAudioResources ==
  /\ audioChunkTimer' = FALSE
  /\ sourceNode' = FALSE
  /\ audioWorkletNode' = FALSE
  /\ scriptProcessorNode' = FALSE
  /\ audioStream' = FALSE
  /\ captureIsRecording' = FALSE
  /\ audioChunkBuffer' = <<>>
  /\ sealedAt' = Len(framesLog)
  /\ captureIdle' = TRUE

\* what the setup leaves alone where it does not clean up
batchKept == <<audioChunkBuffer, audioChunkTimer, sealedAt, captureIdle>>

\* setupAudioProcessing, catch branch
SetupCatch ==
  /\ cleanupAudioResources
  /\ releaseOps' = CleanupOps
  /\ speech' = NoSend
  /\ lastCapture' = "failed"

\* setupAudioProcessing, from sourceNode.connect(processorNode) on; the
\* call throws a TypeError when a cleanup has set sourceNode to null
\* during an await
SetupConnects(source, stream, worklet, script) ==
  IF source
    THEN /\ sourceNode' = TRUE
         /\ audioStream' = stream
         /\ audioWorkletNode' = worklet
         /\ scriptProcessorNode' = script
         /\ captureIsRecording' = TRUE
         /\ lastCapture' = "recording"
         /\ captureIdle' = FALSE
         /\ releaseOps' = {}
         /\ speech' = NoSend
         /\ UNCHANGED <<audioChunkBuffer, audioChunkTimer, sealedAt>>
    ELSE SetupCatch

\* setupScriptProcessor, then the rest of setupAudioProcessing
SetupFallback(source, stream, worklet, scriptOk) ==
  IF scriptOk
    THEN SetupConnects(source, stream, worklet, TRUE)
    ELSE SetupCatch

\* setupAudioProcessing(isAudioCaptureActive, wsConnected, ws) up to its
\* first await; ctx is what getAudioContext gives: a running context, a
\* suspended one, or an exception
setupAudioProcessing(active, connected, ctx) ==
  IF captureIsRecording \/ sourceNode
    THEN /\ lastCapture' = "duplicate"
         /\ UNCHANGED <<audioStream, sourceNode, audioWorkletNode, scriptProcessorNode,
                        captureIsRecording, setups>>
         /\ UNCHANGED <<audioChunkBuffer, audioChunkTimer, sealedAt>> /\ releaseOps' = {}
    ELSE IF ~active \/ ~connected
      THEN /\ lastCapture' = "blocked"
           /\ UNCHANGED <<audioStream, sourceNode, audioWorkletNode, scriptProcessorNode,
                          captureIsRecording, setups>>
           /\ UNCHANGED <<audioChunkBuffer, audioChunkTimer, sealedAt>> /\ releaseOps' = {}
      ELSE IF ctx = "throws"
        THEN /\ cleanupAudioResources
             /\ releaseOps' = CleanupOps
             /\ lastCapture' = "failed"
             /\ UNCHANGED setups
        ELSE /\ Len(setups) < MaxStarts
             /\ setups' = Append(setups, IF ctx = "running" THEN "getUserMedia"
                                                             ELSE "resume")
             /\ lastCapture' = "await"
             /\ UNCHANGED <<audioStream, sourceNode, audioWorkletNode,
                            scriptProcessorNode, captureIsRecording>>
             /\ UNCHANGED <<audioChunkBuffer, audioChunkTimer, sealedAt>> /\ releaseOps' = {}

\* startAudioCapture(wsConnected, ws); the speech_start signal it sends is
\* sendSpeechSignal of the transport
startAudioCapture(connected, ctx) ==
  IF captureIsRecording
    THEN /\ lastCapture' = "startNoop"
         /\ UNCHANGED <<audioStream, sourceNode, audioWorkletNode, scriptProcessorNode,
                        captureIsRecording, isAudioCaptureActive, workletModuleLoaded,
                        setups>>
         /\ UNCHANGED batchKept /\ releaseOps' = {}
         /\ speech' = NoSend
    ELSE /\ isAudioCaptureActive' = TRUE
         /\ speech' = sendSpeechStartSignal(connected)
         /\ IF ctx = "throws" /\ connected /\ ~sourceNode
              THEN setupAudioProcessing(TRUE, connected, ctx)
              ELSE /\ setupAudioProcessing(TRUE, connected, ctx)
                   /\ captureIdle' = FALSE
         /\ UNCHANGED workletModuleLoaded

\* stopAudioCapture(): does it go past its first line?  The variant
\* without the test, and the test
StopAlways == TRUE

StopNeeded == isAudioCaptureActive

\* stopAudioCapture(); a call that returns at once is told apart by
\* whether it follows another stopAudioCapture call
stopAudioCapture ==
  IF ~StopNeeded
    THEN /\ releaseOps' = {}
         /\ lastCapture' = IF lastCapture \in {"stop", "stopAgain"} THEN "stopAgain"
                                                                   ELSE "stopNoop"
         /\ UNCHANGED <<audioStream, sourceNode, audioWorkletNode, scriptProcessorNode,
                        captureIsRecording, isAudioCaptureActive, workletModuleLoaded,
                        setups>>
         /\ UNCHANGED <<audioChunkBuffer, audioChunkTimer, sealedAt, captureIdle>>
         /\ speech' = NoSend
    ELSE /\ isAudioCaptureActive' = FALSE
         /\ \E connected \in BOOLEAN : speech' = sendSpeechEndSignal(connected)
         /\ cleanupAudioResources
         /\ releaseOps' = {"speech_end"} \cup CleanupOps
         /\ lastCapture' = "stop"
         /\ UNCHANGED <<workletModuleLoaded, setups>>

\* click on the record button
recordBtnClick ==
  /\ IF captureIsRecording
       THEN stopAudioCapture
       ELSE \E connected \in BOOLEAN, ctx \in {"running", "suspended", "throws"} :
              startAudioCapture(connected, ctx)
  /\ UNCHANGED <<mailbox, framesLog, batches, nPosted, timerSealedAt>>
  /\ UNCHANGED exceptCapture

\* ws.onclose and disconnect() of the transport call stopAudioCapture()
TransportStopsCapture ==
  /\ stopAudioCapture
  /\ UNCHANGED <<mailbox, framesLog, batches, nPosted, timerSealedAt>>
  /\ UNCHANGED exceptCapture

\* await ctx.resume() settles for the call k
ResumeSettles ==
  \E k \in DOMAIN setups, running \in BOOLEAN :
    /\ setups[k] = "resume"
    /\ IF running
         THEN /\ setups' = [setups EXCEPT ![k] = "getUserMedia"]
              /\ lastCapture' = "await"
              /\ UNCHANGED <<audioStream, sourceNode, audioWorkletNode,
                             scriptProcessorNode, captureIsRecording>>
              /\ UNCHANGED batchKept /\ releaseOps' = {} /\ speech' = NoSend
         ELSE /\ setups' = RemoveAt(setups, k)
              /\ SetupCatch
    /\ UNCHANGED <<isAudioCaptureActive, workletModuleLoaded>>
    /\ UNCHANGED <<mailbox, framesLog, batches, nPosted, timerSealedAt>>
    /\ UNCHANGED exceptCapture

\* await navigator.mediaDevices.getUserMedia settles for the call k:
\* rejected (permission denied, no input device), or resolved with a
\* stream; then createMediaStreamSource, setupAudioWorklet up to its await
\* of addModule, or to its end when there is nothing to await.  An outcome
\* that is never looked at is taken as a failure.
GetUserMediaSettles ==
  \E k \in DOMAIN setups, granted \in BOOLEAN, sourceOk \in BOOLEAN,
     workletSupported \in BOOLEAN, workletOk \in BOOLEAN, scriptOk \in BOOLEAN :
    /\ setups[k] = "getUserMedia"
    /\ ~granted => ~sourceOk
    /\ ~sourceOk => ~workletSupported
    /\ ~workletSupported => ~workletOk
    /\ workletOk \/ ~sourceOk => ~scriptOk
    /\ IF ~granted
         THEN /\ setups' = RemoveAt(setups, k)
              /\ SetupCatch
         ELSE IF ~sourceOk
           THEN /\ setups' = RemoveAt(setups, k)
                /\ SetupCatch
           ELSE IF workletSupported /\ ~workletModuleLoaded
             THEN /\ setups' = [setups EXCEPT ![k] = "addModule"]
                  /\ audioStream' = TRUE
                  /\ sourceNode' = TRUE
                  /\ lastCapture' = "await"
                  /\ UNCHANGED <<audioWorkletNode, scriptProcessorNode,
                                 captureIsRecording>>
                  /\ UNCHANGED batchKept /\ releaseOps' = {} /\ speech' = NoSend
             ELSE /\ setups' = RemoveAt(setups, k)
                  /\ IF workletSupported /\ workletOk
                       THEN SetupConnects(TRUE, TRUE, TRUE, scriptProcessorNode)
                       ELSE SetupFallback(TRUE, TRUE, audioWorkletNode, scriptOk)
    /\ UNCHANGED <<isAudioCaptureActive, workletModuleLoaded>>
    /\ UNCHANGED <<mailbox, framesLog, batches, nPosted, timerSealedAt>>
    /\ UNCHANGED exceptCapture

\* await ctx.audioWorklet.addModule settles for the call k; then the rest
\* of setupAudioWorklet and of setupAudioProcessing.  An outcome that is
\* never looked at is taken as a failure.
AddModuleSettles ==
  \E k \in DOMAIN setups, loaded \in BOOLEAN, workletOk \in BOOLEAN,
     scriptOk \in BOOLEAN :
    /\ setups[k] = "addModule"
    /\ ~loaded => ~workletOk
    /\ workletOk => ~scriptOk
    /\ setups' = RemoveAt(setups, k)
    /\ workletModuleLoaded' = (workletModuleLoaded \/ loaded)
    /\ IF loaded /\ workletOk
         THEN SetupConnects(sourceNode, audioStream, TRUE, scriptProcessorNode)
         ELSE SetupFallback(sourceNode, audioStream, audioWorkletNode, scriptOk)
    /\ UNCHANGED isAudioCaptureActive
    /\ UNCHANGED <<mailbox, framesLog, batches, nPosted, timerSealedAt>>
    /\ UNCHANGED exceptCapture

CaptureNext ==
  \/ recordBtnClick
  \/ TransportStopsCapture
  \/ ResumeSettles
  \/ GetUserMediaSettles
  \/ AddModuleSettles

(***************************************************************************)
(* The audio module's batching: the processing node posts frames, the      *)
(* event loop delivers them to processAudioChunk, and the interval timer   *)
(* combines, converts and sends what has accumulated.  A sample is the     *)
(* number n / SampleDen, kept as the integer n.                            *)
(***************************************************************************)
\* the samples of the frame posted as the f-th: one or two of them, all
\* different, some beyond [-1, 1]
FrameSamples(f) ==
  [i \in 1..(1 + (f % 2)) |->
     (((2 * f + i) * 37) % (3 * SampleDen + 1)) - (3 * SampleDen) \div 2]

\* the number a / b (b > 0) without its fractional part
Truncate(a, b) ==
  IF a >= 0 THEN a \div b ELSE -((-a) \div b)

\* the store into an Int16Array element: truncated, modulo 2^16
ToInt16(a, b) ==
  ((Truncate(a, b) + 32768) % 65536) - 32768

\* Math.max(-1, Math.min(1, s))
ClampSample(n) ==
  IF n > SampleDen THEN SampleDen ELSE IF n < -SampleDen THEN -SampleDen ELSE n

\* convertFloat32ToInt16, one element: the variant that scales both signs
\* by 0x8000
ConvertSampleSymmetric(n) ==
  ToInt16(ClampSample(n) * 32768, SampleDen)

\* convertFloat32ToInt16, one element
ConvertSample(n) ==
  ToInt16(IF ClampSample(n) < 0 THEN ClampSample(n) * 32768
                                ELSE ClampSample(n) * 32767, SampleDen)

\* convertFloat32ToInt16(float32Array)
convertFloat32ToInt16(float32Array) ==
  [i \in 1..Len(float32Array) |-> ConvertSample(float32Array[i])]

\* combineAudioChunks(chunks)
RECURSIVE combineAudioChunks(_)
combineAudioChunks(chunks) ==
  IF chunks = <<>> THEN <<>>
  ELSE chunks[1] \o combineAudioChunks(Tail(chunks))

\* the processing node, connected to the microphone source, posts a frame
FramePosted ==
  /\ captureIsRecording
  /\ nPosted < MaxFrames
  /\ mailbox' = Append(mailbox, FrameSamples(nPosted + 1))
  /\ nPosted' = nPosted + 1
  /\ lastCapture' = "posted"
  /\ UNCHANGED <<audioStream, sourceNode, audioWorkletNode, scriptProcessorNode,
                 captureIsRecording, isAudioCaptureActive, workletModuleLoaded, setups>>
  /\ releaseOps' = {}
  /\ speech' = NoSend
  /\ UNCHANGED <<audioChunkBuffer, audioChunkTimer, framesLog, sealedAt, batches,
                 timerSealedAt, captureIdle>>
  /\ UNCHANGED exceptCapture

\* processAudioChunk(audioData): does it arm the timer?
TimerNeeded == ~audioChunkTimer

\* workletNode.port.onmessage / onaudioprocess: processAudioChunk with the
\* frame posted first
processAudioChunk ==
  /\ mailbox # <<>>
  /\ mailbox' = Tail(mailbox)
  /\ audioChunkBuffer' = Append(audioChunkBuffer, Head(mailbox))
  /\ audioChunkTimer' = (IF TimerNeeded THEN TRUE ELSE audioChunkTimer)
  /\ framesLog' = Append(framesLog, Head(mailbox))
  /\ lastCapture' = "frame"
  /\ UNCHANGED <<audioStream, sourceNode, audioWorkletNode, scriptProcessorNode,
                 captureIsRecording, isAudioCaptureActive, workletModuleLoaded, setups>>
  /\ releaseOps' = {}
  /\ speech' = NoSend
  /\ UNCHANGED <<sealedAt, batches, nPosted, timerSealedAt, captureIdle>>
  /\ UNCHANGED exceptCapture

\* the interval callback: is there a batch to seal?  The variant that
\* seals on every tick, and the callback's test
BatchAlways == TRUE

BatchReady == audioChunkBuffer # <<>>

\* the interval callback: what it leaves in the buffer after a batch.  The
\* variant that keeps the frames, and the callback's assignment
BufferKept == audioChunkBuffer

BufferAfterSeal == <<>>

\* the interval callback of processAudioChunk: combineAudioChunks, then
\* sendAudioChunk, which converts and sends when the transport is
\* connected and drops the batch otherwise; the interval stays armed
BatchTimerFires ==
  /\ audioChunkTimer
  /\ \E connected \in BOOLEAN :
       IF BatchReady
         THEN /\ batches' = IF connected
                              THEN Append(batches, convertFloat32ToInt16(
                                                     combineAudioChunks(audioChunkBuffer)))
                              ELSE batches
              /\ audioChunkBuffer' = BufferAfterSeal
              /\ sealedAt' = Len(framesLog)
              /\ timerSealedAt' = Len(framesLog)
              /\ lastCapture' = IF connected THEN "batchSent" ELSE "batchDropped"
              /\ speech' = IF connected THEN Sends("user_audio_chunk", speech.open)
                                         ELSE NoSend
         ELSE /\ lastCapture' = "tickEmpty"
              /\ speech' = NoSend
              /\ UNCHANGED <<batches, audioChunkBuffer, sealedAt, timerSealedAt>>
  /\ UNCHANGED <<audioStream, sourceNode, audioWorkletNode, scriptProcessorNode,
                 captureIsRecording, isAudioCaptureActive, workletModuleLoaded, setups>>
  /\ releaseOps' = {}
  /\ UNCHANGED <<audioChunkTimer, mailbox, framesLog, nPosted, captureIdle>>
  /\ UNCHANGED exceptCapture

BatchNext ==
  \/ FramePosted
  \/ processAudioChunk
  \/ BatchTimerFires

(***************************************************************************)
(* convertFloat32ToInt16 as a function of its argument.                    *)
(***************************************************************************)
\* the samples tried: from below -1 to above 1, in steps of 1 / SampleDen
SampleRange == (-(SampleDen + SampleMargin))..(SampleDen + SampleMargin)

ConvInit ==
  /\ audioData = <<>>
  /\ pcm16 = <<>>

\* an array of two samples is about to be converted
ConvArgs ==
  /\ audioData \in [1..2 -> SampleRange]
  /\ pcm16 = <<>>

\* const pcm16 = convertFloat32ToInt16(audioData)
sendAudioChunkConverts ==
  /\ audioData # <<>>
  /\ pcm16 = <<>>
  /\ pcm16' = convertFloat32ToInt16(audioData)
  /\ UNCHANGED <<audioData, turnVars, audioVars, connVars, wsVars, toggleVars,
                 captureVars, recordVars, batchVars, talkVars>>

(***************************************************************************)
(* The binary-audio client of tests/test_weekly_review_display.js (the     *)
(* btnTalk page): a click opens a socket and the microphone, binary        *)
(* messages are queued and played one after the other, and cleanup() tears *)
(* the session down.  The handlers of a socket stay attached when ws is    *)
(* set to null or to a newer socket.                                       *)
(***************************************************************************)
TalkInit ==
  /\ talkSockets = <<>>
  /\ talkWs = 0
  /\ talkBtnDisabled = FALSE
  /\ talkBtnOnclick = "start"
  /\ talkStarting = 0
  /\ talkAudioStream = FALSE
  /\ talkRecorder = "none"
  /\ talkAudioQueue = <<>>
  /\ talkIsPlaying = FALSE
  /\ talkInflight = {}
  /\ talkPlayed = <<>>
  /\ talkReceived = 0
  /\ lastTalk = "none"

\* playNextInQueue() up to its await, on the queue q with the fragments
\* playing being those of the set playing
playNextInQueue(q, playing) ==
  IF q = <<>>
    THEN /\ talkIsPlaying' = FALSE
         /\ talkAudioQueue' = q
         /\ talkInflight' = playing
         /\ UNCHANGED talkPlayed
    ELSE /\ talkIsPlaying' = TRUE
         /\ talkAudioQueue' = Tail(q)
         /\ talkInflight' = playing \cup {Head(q)}
         /\ talkPlayed' = Append(talkPlayed, Head(q))

\* cleanup() of the binary-audio client; btn.onclick.bind(btn) keeps the
\* handler the button has
talkCleanup ==
  /\ talkAudioStream' = FALSE
  /\ talkSockets' = IF talkWs # 0 /\ talkSockets[talkWs] = "OPEN"
                       THEN [talkSockets EXCEPT ![talkWs] = "CLOSING"]
                       ELSE talkSockets
  /\ talkWs' = 0
  /\ talkRecorder' = IF talkRecorder = "recording" THEN "inactive" ELSE talkRecorder
  /\ talkAudioQueue' = <<>>
  /\ talkIsPlaying' = FALSE
  /\ talkBtnDisabled' = FALSE
  /\ UNCHANGED <<talkBtnOnclick, talkInflight, talkPlayed>>

\* stopRecording()
stopRecording ==
  IF talkWs = 0 \/ talkSockets[talkWs] # "OPEN"
    THEN UNCHANGED <<talkBtnDisabled, talkRecorder>>
    ELSE /\ talkBtnDisabled' = TRUE
         /\ talkRecorder' = IF talkRecorder = "recording" THEN "inactive"
                                                          ELSE talkRecorder

\* click on btnTalk: the click handler up to await getUserMedia, or
\* stopRecording
btnOnclick ==
  /\ ~talkBtnDisabled
  /\ IF talkBtnOnclick = "start"
       THEN /\ Len(talkSockets) < MaxTalkSockets
            /\ talkBtnDisabled' = TRUE
            /\ talkSockets' = Append(talkSockets, "CONNECTING")
            /\ talkWs' = Len(talkSockets) + 1
            /\ talkStarting' = talkStarting + 1
            /\ UNCHANGED talkRecorder
       ELSE /\ stopRecording
            /\ UNCHANGED <<talkSockets, talkWs, talkStarting>>
  /\ lastTalk' = "click"
  /\ UNCHANGED <<talkBtnOnclick, talkAudioStream, talkAudioQueue, talkIsPlaying,
                 talkInflight, talkPlayed, talkReceived>>
  /\ UNCHANGED exceptTalk

\* the click handler resumed after await getUserMedia: the recorder is
\* started, or the catch branch calls cleanup()
TalkGetUserMediaSettles ==
  /\ talkStarting > 0
  /\ talkStarting' = talkStarting - 1
  /\ \E granted \in BOOLEAN :
       IF granted
         THEN /\ talkAudioStream' = TRUE
              /\ talkRecorder' = "recording"
              /\ talkBtnOnclick' = "stop"
              /\ talkBtnDisabled' = FALSE
              /\ lastTalk' = "recording"
              /\ UNCHANGED <<talkSockets, talkWs, talkAudioQueue, talkIsPlaying,
                             talkInflight, talkPlayed>>
         ELSE /\ talkCleanup
              /\ lastTalk' = "cleanup"
  /\ UNCHANGED talkReceived
  /\ UNCHANGED exceptTalk

\* the socket i opens (it has no onopen handler)
TalkSocketOpens ==
  \E i \in DOMAIN talkSockets :
    /\ talkSockets[i] = "CONNECTING"
    /\ talkSockets' = [talkSockets EXCEPT ![i] = "OPEN"]
    /\ lastTalk' = "open"
    /\ UNCHANGED <<talkWs, talkBtnDisabled, talkBtnOnclick, talkStarting, talkAudioStream,
                   talkRecorder, talkAudioQueue, talkIsPlaying, talkInflight, talkPlayed,
                   talkReceived>>
    /\ UNCHANGED exceptTalk

\* ws.onmessage of an open socket, binary data: the fragment is queued and
\* the drain started unless isPlaying
TalkAudioMessage ==
  \E i \in DOMAIN talkSockets :
    /\ talkSockets[i] = "OPEN"
    /\ talkReceived < MaxFragments
    /\ talkReceived' = talkReceived + 1
    /\ IF ~talkIsPlaying
         THEN playNextInQueue(Append(talkAudioQueue, talkReceived + 1), talkInflight)
         ELSE /\ talkAudioQueue' = Append(talkAudioQueue, talkReceived + 1)
              /\ UNCHANGED <<talkIsPlaying, talkInflight, talkPlayed>>
    /\ lastTalk' = "audio"
    /\ UNCHANGED <<talkSockets, talkWs, talkBtnDisabled, talkBtnOnclick, talkStarting,
                   talkAudioStream, talkRecorder>>
    /\ UNCHANGED exceptTalk

\* ws.onmessage of an open socket, {type: "end"}: cleanup()
TalkEndMessage ==
  \E i \in DOMAIN talkSockets :
    /\ talkSockets[i] = "OPEN"
    /\ talkCleanup
    /\ lastTalk' = "cleanup"
    /\ UNCHANGED <<talkBtnOnclick, talkStarting, talkReceived>>
    /\ UNCHANGED exceptTalk

\* the connection of socket i fails, is lost or finishes closing: ws.onerror
\* and ws.onclose are both cleanup
TalkSocketCloses ==
  \E i \in DOMAIN talkSockets :
    /\ talkSockets[i] # "CLOSED"
    /\ talkAudioStream' = FALSE
    /\ talkSockets' = [j \in DOMAIN talkSockets |->
                         IF j = i THEN "CLOSED"
                         ELSE IF j = talkWs /\ talkSockets[j] = "OPEN" THEN "CLOSING"
                         ELSE talkSockets[j]]
    /\ talkWs' = 0
    /\ talkRecorder' = IF talkRecorder = "recording" THEN "inactive" ELSE talkRecorder
    /\ talkAudioQueue' = <<>>
    /\ talkIsPlaying' = FALSE
    /\ talkBtnDisabled' = FALSE
    /\ lastTalk' = "cleanup"
    /\ UNCHANGED <<talkBtnOnclick, talkInflight, talkPlayed, talkStarting, talkReceived>>
    /\ UNCHANGED exceptTalk

\* audio.onended or audio.onerror of a fragment that is playing: the
\* suspended playNextInQueue call goes through its finally branch
TalkFragmentEnds ==
  \E f \in talkInflight :
    /\ playNextInQueue(talkAudioQueue, talkInflight \ {f})
    /\ lastTalk' = "ended"
    /\ UNCHANGED <<talkSockets, talkWs, talkBtnDisabled, talkBtnOnclick, talkStarting,
                   talkAudioStream, talkRecorder, talkReceived>>
    /\ UNCHANGED exceptTalk

TalkNext ==
  \/ btnOnclick
  \/ TalkGetUserMediaSettles
  \/ TalkSocketOpens
  \/ TalkAudioMessage
  \/ TalkEndMessage
  \/ TalkSocketCloses
  \/ TalkFragmentEnds

Init ==
  /\ TalkInit
  /\ TurnInit /\ AudioInit /\ ConnInit /\ WsInit /\ ToggleInit /\ CaptureInit
  /\ RecordInit /\ BatchInit /\ ConvInit

\* convertFloat32ToInt16 applied to every array of two samples
InitConvert ==
  /\ TurnInit /\ AudioInit /\ ConnInit /\ WsInit /\ ToggleInit /\ CaptureInit
  /\ RecordInit /\ BatchInit /\ ConvArgs /\ TalkInit

NextConvert == sendAudioChunkConverts

\* the binary-audio client
NextTalk == TalkNext

SpecTalk == Init /\ [][NextTalk]_vars

SpecConvert == InitConvert /\ [][NextConvert]_vars

Next == TurnNext

Spec == Init /\ [][Next]_vars

\* the playback queue alone
NextAudio == AudioNext

SpecAudio == Init /\ [][NextAudio]_vars

\* the playback queue when every decode settles and every playback ends
FairSpecAudio == SpecAudio /\ WF_vars(DecodeSettled) /\ WF_vars(PlaybackEnded)

\* the reconnecting client alone
NextConn == ConnNext

SpecConn == Init /\ [][NextConn]_vars

\* the transport of js/wsclient.js and its send helper
NextWs == TransportNext \/ SendText \/ sendSpeechSignal

SpecWs == Init /\ [][NextWs]_vars

\* the connection control of the earlier WebSocket module
NextToggle == ToggleNext

SpecToggle == Init /\ [][NextToggle]_vars

\* the capture of the audio module: start, setup and stop
NextCapture == CaptureNext

\* the capture of the audio module with the frames of its processing node
NextBatch == CaptureNext \/ BatchNext

SpecBatch == Init /\ [][NextBatch]_vars

SpecCapture == Init /\ [][NextCapture]_vars

\* the capture with its frames, the messages handed to the socket recorded
InitSpeech ==
  /\ TalkInit
  /\ TurnInit /\ AudioInit /\ ConnInit /\ WsInit /\ ToggleInit /\ CaptureInit
  /\ RecordInit /\ BatchStateInit /\ ConvInit
  /\ speech = [on |-> TRUE, open |-> FALSE, sent |-> "none"]

SpecSpeech == InitSpeech /\ [][NextBatch]_vars

\* the connection control and the capture control of the earlier modules
NextRecord == ToggleNext \/ RecordNext

SpecRecord == Init /\ [][NextRecord]_vars

\* a connecting socket opens or fails
ConnectingSettles ==
  /\ ToggleSocketOpens \/ ToggleSocketCloses
  /\ \E i \in DOMAIN sockets : sockets[i] = "CONNECTING" /\ sockets'[i] # "CONNECTING"

\* the same, where the browser settles what is pending: a connecting socket
\* opens or fails, an armed timeout fires, an awaited promise settles; the
\* user's clicks and the loss of an open connection may or may not happen
FairSpecRecord ==
  /\ SpecRecord
  /\ WF_vars(ConnectingSettles)
  /\ WF_vars(ConnectionTimeoutFires)
  /\ WF_vars(StartResumeSettles)
  /\ WF_vars(SetupResumeSettles)
  /\ WF_vars(SetupGetUserMediaSettles)
  /\ WF_vars(SetupAddModuleSettles)

\* the transport of js/wsclient.js with the messages its sockets deliver
NextSession == TransportNext \/ Deliver

SpecSession == Init /\ [][NextSession]_vars

\* the same session with the application's resetStateAfterError
NextSessionMain == TransportNext \/ DeliverMain

SpecSessionMain == Init /\ [][NextSessionMain]_vars

(***************************************************************************)
(* Properties of the turn coordinator                                      *)
(***************************************************************************)
RECURSIVE Concat(_)
Concat(texts) ==
  IF texts = <<>> THEN <<>> ELSE texts[1] \o Concat(Tail(texts))

RECURSIVE TextsOf(_)
TextsOf(ms) ==
  IF ms = <<>> THEN <<>>
  ELSE (IF ms[1].sender = "ai" THEN <<ms[1]>> ELSE <<>>) \o TextsOf(Tail(ms))

IsAiRender(o) == o.sender = "ai" /\ o.op \in {"create", "append"}

\* the assistant-text render operations of the last handler, and their text
AiRenderOps == SelectSeq(ops, IsAiRender)
RenderedByOps == Concat([i \in 1..Len(AiRenderOps) |-> AiRenderOps[i].text])

\* all assistant text in the chat, in DOM order
RenderedAiText ==
  LET bs == TextsOf(messagesSection) IN Concat([i \in 1..Len(bs) |-> bs[i].rawText])

Range(f) == {f[i] : i \in DOMAIN f}
NotDiscarded(t) == t \notin Range(discarded)
NoDup(q) == \A i, j \in 1..Len(q) : q[i] = q[j] => i = j

C2_EarlyCompletion ==
  window.phase = "closed" /\ window.earlyDoneEver =>
    /\ RenderedByOps = window.deltas
    /\ lastAiElem = 0
    /\ aiResponseBuffer = <<>>
    /\ userTranscriptFinalized

\* C3 as stated: whenever the transcript is final and the buffer is null, the
\* assistant text in the chat is all the text_delta content received so far.
C3_NothingDiscarded ==
  userTranscriptFinalized /\ aiResponseBuffer = <<>> => RenderedAiText = received

\* C3 as amended: whenever the transcript is final and the buffer is null, the
\* assistant text in the chat is the text_delta content received so far without
\* the content that was still buffered when a new committed event arrived.
C3_NothingDiscardedButAtCommit ==
  userTranscriptFinalized /\ aiResponseBuffer = <<>> =>
    RenderedAiText = SelectSeq(received, NotDiscarded)

C3_Witness ==
  /\ userTranscriptFinalized
  /\ aiResponseBuffer = <<>>
  /\ discarded # <<>>
  /\ lastEvent = "transcript_done"
  /\ RenderedByOps # <<>>

\* C4: the buffer is null right after every transcript_done, a handler does at
\* most one assistant render operation, no received text is in the chat twice
\* (or in the chat and in the buffer), and a transcript_done that finds
\* buffered content renders all of it in one operation.
C4_FlushOnce ==
  /\ [](/\ lastEvent = "transcript_done" => aiResponseBuffer = <<>>
        /\ Len(AiRenderOps) <= 1
        /\ NoDup(RenderedAiText \o BufferContent))
  /\ [][lastEvent' = "transcript_done" /\ BufferContent # <<>> =>
          /\ Len(AiRenderOps') = 1
          /\ AiRenderOps'[1].text = BufferContent]_vars

C4_Witness ==
  /\ lastEvent = "transcript_done"
  /\ Len(AiRenderOps) = 1
  /\ AiRenderOps[1].op = "append"
  /\ Len(AiRenderOps[1].text) >= 2

IsOk(f) == f.kind = "ok"
IsFailing(f) == f.kind # "ok"
IdsOf(fs) == [i \in 1..Len(fs) |-> fs[i].id]
OkIds == IdsOf(SelectSeq(enqueued, IsOk))
FailingIds == Range(IdsOf(SelectSeq(enqueued, IsFailing)))
IsPrefix(p, q) == Len(p) <= Len(q) /\ SubSeq(q, 1, Len(p)) = p

\* C6: the fragments start playing in the order in which they were enqueued:
\* the sequence of started fragments is always a prefix of the playable
\* fragments in enqueue order.
C6_PlaybackOrder == IsPrefix(started, OkIds)

C6_Witness ==
  /\ Len(started) >= 2
  /\ lastAudio = "decoded"
  /\ audioQueue # <<>>

\* C7: a fragment that cannot be played is skipped exactly once and never
\* played, a non-empty queue always has a drain in progress, and when nothing
\* is in flight every playable fragment has been started, in order, and every
\* other fragment has been skipped.
C7_DecodeFailureIsolation ==
  /\ NoDup(skipped)
  /\ Range(skipped) \subseteq FailingIds
  /\ Range(skipped) \cap Range(started) = {}
  /\ audioQueue # <<>> => inflight # {}
  /\ inflight = {} => started = OkIds /\ Range(skipped) = FailingIds

C7_Witness ==
  /\ inflight = {}
  /\ Len(skipped) >= 1
  /\ Len(started) >= 2
  /\ started[1] < skipped[1]
  /\ skipped[1] < started[2]
  /\ enqueued[skipped[1]].kind = "reject"

\* C8: at most one fragment is in decode or playback at any time, and a call
\* of playAudioChunk made while one is in flight starts nothing.
C8_NoOverlap ==
  /\ [](Cardinality(inflight) <= 1)
  /\ [][lastAudio' = "enqueue" /\ inflight # {} => inflight' = inflight]_vars

C8_Witness ==
  /\ lastAudio = "enqueue"
  /\ Cardinality(inflight) = 1
  /\ Len(audioQueue) >= 2

(***************************************************************************)
(* Properties of the reconnecting client                                   *)
(***************************************************************************)
\* 1000, 1500, 2250, 3375 and 5062.5 ms in units of 1/32 ms
ExpectedDelays == <<32000, 48000, 72000, 108000, 162000>>

\* C9: the k-th reconnect scheduled since the last open (k = 0..4) has the
\* delay min(1000 * 1.5^k, 10000) ms, so the delays are non-decreasing and at
\* most 10000 ms; right after an open the counter is 0 and the base delay is
\* 1000 ms, and the next delay scheduled is the first of the list again.
C9_Backoff ==
  /\ Len(scheduled) <= maxReconnectAttempts
  /\ Len(scheduled) = reconnectAttempts
  /\ \A k \in 1..Len(scheduled) :
       /\ scheduled[k] = Min(ExpectedDelays[k], 10000 * 32)
       /\ k > 1 => scheduled[k - 1] <= scheduled[k]
  /\ lastConn = "open" => reconnectAttempts = 0 /\ reconnectDelay = 1000

C9_Witness ==
  /\ lastConn = "close"
  /\ Len(scheduled) = 5
  /\ scheduled[5] = 162000
  /\ Len(timers) = 1

\* C10: once five reconnects in a row have failed and the refresh control is
\* shown, no timer and no visibility change creates a socket and no reconnect
\* is scheduled; and a close that finds the attempts used up shows the refresh
\* control.
Exhausted ==
  /\ refreshRequired
  /\ reconnectAttempts >= maxReconnectAttempts
  /\ ws = "CLOSED"
  /\ replaced = 0
  /\ timers = <<>>

C10_ReconnectCap ==
  /\ [](lastConn = "close" /\ reconnectAttempts >= maxReconnectAttempts /\ timers = <<>>
          => refreshRequired)
  /\ [][Exhausted => /\ timers' = <<>>
                     /\ ~(lastConn' \in {"timer", "visibility"} /\ nSockets' > nSockets)]_vars

\* C11: after cleanup() closed the connection and until the record control
\* is used again, the close event schedules no reconnect, no pending
\* reconnect timer opens a connection, and no connection attempt is made.
C11_DisconnectSuppressesReconnect ==
  [][tornDown /\ lastConn' # "toggle" =>
       /\ (lastConn' = "close" => timers' = timers)
       /\ nSockets' = nSockets]_vars

(***************************************************************************)
(* Properties of the transport of js/wsclient.js                           *)
(***************************************************************************)
\* the sockets that are connecting or open; each carries the handlers
LiveSockets == {i \in DOMAIN sockets : sockets[i] \in {"CONNECTING", "OPEN"}}

\* C12: at every moment at most one socket carrying the transport's
\* handlers is connecting or open (connect() never adds a second one).
C12_SingleConnection == Cardinality(LiveSockets) <= 1

\* the current socket is open; a socket in the closing handshake that the
\* server started, whose close event is still to come, counts as open
CurrentSocketUp == wsRef # 0 /\ sockets[wsRef] \in {"OPEN", "CLOSING"}

\* C15: connectionState is CONNECTED exactly when the current socket of the
\* transport is open and wsConnected is true, and CONNECTING only while the
\* current socket is connecting.
C15_ControlConsistent ==
  /\ (connectionState = "CONNECTED") = CurrentSocketUp
  /\ wsConnected = CurrentSocketUp
  /\ connectionState = "CONNECTING" => wsRef # 0 /\ sockets[wsRef] = "CONNECTING"

\* a later connection has just opened: every earlier socket is closed and
\* the new one has delivered no message yet
NextConnectionOpened ==
  /\ Len(sockets) > 1
  /\ sockets[Len(sockets)] = "OPEN"
  /\ \A j \in 1..(Len(sockets) - 1) : sockets[j] = "CLOSED"
  /\ lastWs = "open"
  /\ nEvents = eventsAtOpen

\* C16: when the connection after a closed one is about to deliver its first
\* message, the coordinator is in its reset state: transcript final, no
\* pending buffer, no active bubble.
C16_SessionReset ==
  NextConnectionOpened =>
    /\ userTranscriptFinalized
    /\ aiResponseBuffer = <<>>
    /\ currentUserSpeechBubble = 0
    /\ lastAiElem = 0

\* C17: a message that fails JSON parsing changes neither the connection
\* nor the coordinator: transcript flag, buffer and both bubble references
\* stay as they were.
C17_MalformedDropped ==
  [][lastEvent' = "malformed" /\ nEvents' = nEvents + 1 =>
       UNCHANGED <<userTranscriptFinalized, aiResponseBuffer, currentUserSpeechBubble,
                   lastAiElem, sockets, wsRef, wsConnected, connectionState>>]_vars

\* C18: handling an inbound error message sets both bubble references to
\* null and leaves the transcript flag, the pending buffer and the connection
\* as they were.
C18_ServerError ==
  [][lastEvent' = "error" /\ nEvents' = nEvents + 1 =>
       /\ currentUserSpeechBubble' = 0
       /\ lastAiElem' = 0
       /\ UNCHANGED <<userTranscriptFinalized, aiResponseBuffer,
                      sockets, wsRef, wsConnected, connectionState>>]_vars

\* C19: a send never throws and changes no transport or turn state; it
\* returns false and hands nothing to a socket unless the connection is
\* CONNECTED and the current socket open; it returns true only when the
\* message was handed to the current socket, which is open.
C19_SendOnClosed ==
  [][lastWs' \in {"send", "signal"} =>
       /\ sendReturn' \in {"true", "false"}
       /\ (connectionState # "CONNECTED" \/ wsRef = 0 \/ sockets[wsRef] # "OPEN")
            => sendReturn' = "false" /\ handedTo' = 0
       /\ sendReturn' = "true"
            => handedTo' # 0 /\ handedTo' = wsRef /\ sockets[handedTo'] = "OPEN"
       /\ UNCHANGED <<sockets, wsRef, wsConnected, connectionState, turnVars>>]_vars

\* C19: a send was refused after the connection had been lost
C19_Witness ==
  /\ lastWs \in {"send", "signal"}
  /\ sendReturn = "false"
  /\ handedTo = 0
  /\ connectionState = "DISCONNECTED"
  /\ \E i \in DOMAIN sockets : sockets[i] = "CLOSED"

(***************************************************************************)
(* Properties of the audio capture                                         *)
(***************************************************************************)
\* C20: when starting capture fails, afterwards no stream, source node or
\* processing node is held, isRecording is false and isAudioCaptureActive
\* is false.
C20_StartFailureReleases ==
  [][lastCapture' = "failed" =>
       /\ ~audioStream'
       /\ ~sourceNode'
       /\ ~audioWorkletNode'
       /\ ~scriptProcessorNode'
       /\ ~captureIsRecording'
       /\ ~isAudioCaptureActive']_vars

C13_TransportStateMachine ==
  [][connectionState' # connectionState =>
       \/ /\ connectionState = "DISCONNECTED"
          /\ connectionState' = "CONNECTING"
          /\ lastWs' = "connect"
       \/ /\ connectionState = "CONNECTING"
          /\ connectionState' = "CONNECTED"
          /\ lastWs' = "open"
       \/ /\ connectionState' = "DISCONNECTED"
          /\ lastWs' \in {"close", "timeout", "disconnect"}]_vars

\* the attempt k is still in progress: it is the latest one and its socket
\* is still connecting
StillConnecting(k) ==
  /\ k = Len(attempts)
  /\ connectionState = "CONNECTING"
  /\ sockets[attempts[k]] = "CONNECTING"

\* C14: when the timeout of a connect attempt fires, the attempt is failed
\* to DISCONNECTED if it is still connecting, and nothing changes if the
\* attempt has already succeeded, failed or been superseded.
C14_ConnectionTimeout ==
  [][connectionTimeouts' # connectionTimeouts /\ lastWs' = "timeout" =>
       IF StillConnecting(firedTimeout')
         THEN connectionState' = "DISCONNECTED"
         ELSE connectionState' = connectionState]_vars

\* C22: from the return of a teardown (stopAudioCapture or
\* cleanupAudioResources) until the next start no batch timer is pending or
\* armed again and no batch is sent, also when frames posted before the
\* teardown are delivered after it.
C22_QuietAfterTeardown ==
  [][captureIdle /\ captureIdle' => ~audioChunkTimer' /\ batches' = batches]_vars

\* the capture state that a stopAudioCapture call can touch
teardownState ==
  <<audioStream, sourceNode, audioWorkletNode, scriptProcessorNode, captureIsRecording,
    isAudioCaptureActive, workletModuleLoaded, setups, audioChunkBuffer, audioChunkTimer,
    mailbox, batches>>

\* C23: a stopAudioCapture call that follows another one, or that finds
\* capture never started or already stopped, sends no speech_end, releases
\* no track and no node, and leaves the capture state as it was.
C23_IdempotentTeardown ==
  [][lastCapture' \in {"stop", "stopAgain", "stopNoop"}
       /\ (lastCapture \in {"stop", "stopAgain"} \/ ~isAudioCaptureActive)
     => releaseOps' = {} /\ UNCHANGED teardownState]_vars

\* a second stopAudioCapture call in a row has returned, after a capture
\* that recorded frames
C23_Witness ==
  /\ lastCapture = "stopAgain"
  /\ nPosted > 0
  /\ releaseOps = {}

\* combineAudioChunks, totalLength: the samples of the frames together
RECURSIVE TotalLength(_)
TotalLength(chunks) ==
  IF chunks = <<>> THEN 0
  ELSE Len(chunks[1]) + TotalLength(Tail(chunks))

\* the frames delivered after the first k, in arrival order
FramesSince(k) == SubSeq(framesLog, k + 1, Len(framesLog))

\* C24 as stated: each batch handed to the socket is the conversion of the
\* concatenation, in arrival order, of the frames delivered since the
\* interval callback sealed the previous batch.
C24_BatchIntegrity ==
  [][batches' # batches =>
       batches' = Append(batches, convertFloat32ToInt16(
                                    combineAudioChunks(FramesSince(timerSealedAt))))]_vars

\* C24 amended: the buffer always holds the frames delivered since it was
\* cleared last, by the interval callback or by a teardown, the points where
\* it is cleared only move forward, and a batch handed to the socket is the
\* conversion of the concatenation of these frames in arrival order, with as
\* many samples as the frames have together; the callback then clears the
\* buffer, so that no frame is in two batches and the batches are sent in the
\* order they are sealed.
C24_BatchIntegritySinceCleared ==
  [][/\ sealedAt' >= sealedAt
     /\ audioChunkBuffer' = SubSeq(framesLog', sealedAt' + 1, Len(framesLog'))
     /\ batches' # batches =>
          /\ batches' = Append(batches, convertFloat32ToInt16(
                                          combineAudioChunks(FramesSince(sealedAt))))
          /\ Len(batches'[Len(batches')]) = TotalLength(FramesSince(sealedAt))
          /\ sealedAt' = Len(framesLog)
          /\ audioChunkBuffer' = <<>>]_vars

\* a batch of two frames (three samples) was sent and the buffer cleared
C24_Witness ==
  /\ Len(batches) = 1
  /\ Len(framesLog) = 2
  /\ batches[1] = convertFloat32ToInt16(framesLog[1] \o framesLog[2])
  /\ Len(batches[1]) = 3
  /\ audioChunkBuffer = <<>>
  /\ lastCapture = "batchSent"

\* the 16-bit value the claim gives for the sample n / SampleDen: c * 32768
\* for c < 0 and c * 32767 otherwise, c the sample clamped to [-1, 1], with
\* the fraction dropped
Int16Of(n) ==
  LET c == IF n < -SampleDen THEN -SampleDen ELSE IF n > SampleDen THEN SampleDen ELSE n
  IN  IF c < 0 THEN -((-c * 32768) \div SampleDen) ELSE (c * 32767) \div SampleDen

\* C25: every sample of the array convertFloat32ToInt16 returns is the
\* 16-bit value of its clamped input scaled by 32768 below zero and by 32767
\* otherwise; it lies in [-32768, 32767], is -32768 for inputs up to -1,
\* 32767 for inputs from 1 on and 0 for 0, and a larger input never gives a
\* smaller output.
C25_ConversionSaturates ==
  pcm16 # <<>> =>
    /\ Len(pcm16) = Len(audioData)
    /\ \A i \in 1..Len(audioData) :
         /\ pcm16[i] = Int16Of(audioData[i])
         /\ pcm16[i] \in (-32768)..32767
         /\ audioData[i] <= -SampleDen => pcm16[i] = -32768
         /\ audioData[i] >= SampleDen => pcm16[i] = 32767
         /\ audioData[i] = 0 => pcm16[i] = 0
    /\ \A i, j \in 1..Len(audioData) :
         audioData[i] <= audioData[j] => pcm16[i] <= pcm16[j]

\* an array with a sample below -1 and a sample above 1 was converted
C25_Witness ==
  /\ pcm16 # <<>>
  /\ audioData[1] < -SampleDen
  /\ audioData[2] > SampleDen
  /\ pcm16 = <<-32768, 32767>>

\* C26: a tick of the batch timer that finds no frame delivered since the
\* buffer was cleared hands nothing to the socket, and no batch handed to the
\* socket is empty.
C26_SilentNoSend ==
  [][/\ audioChunkBuffer = <<>> => batches' = batches
     /\ batches' # batches => Len(batches'[Len(batches')]) > 0]_vars

\* the timer ticked with no frame delivered since the batch it sent before
C26_Witness ==
  /\ lastCapture = "tickEmpty"
  /\ audioChunkTimer
  /\ audioChunkBuffer = <<>>
  /\ Len(batches) = 1

\* C27: when the page becomes visible while the connection is not open, a
\* connection attempt is initiated, and a reconnect timer that fires while
\* the page is not visible opens nothing.
C27_ReconnectOnForeground ==
  [][/\ visibilityState = "hidden" /\ visibilityState' = "visible" /\ ws # "OPEN"
        => nSockets' = nSockets + 1 /\ ws' = "CONNECTING"
     /\ lastConn' = "timer" /\ timers' # timers /\ visibilityState = "hidden"
        => nSockets' = nSockets /\ ws' = ws]_vars

\* C28: cleanup() while a fragment is playing is safe: the completion of
\* that fragment finds the queue empty and leaves playback idle; fragments
\* queued afterwards are started in the order they were queued, and never
\* while another fragment is still playing.
C28_TeardownInFlight ==
  [][/\ lastTalk' = "ended" /\ talkAudioQueue = <<>>
        => ~talkIsPlaying' /\ talkAudioQueue' = <<>>
     /\ \A i, j \in DOMAIN talkPlayed' : i < j => talkPlayed'[i] < talkPlayed'[j]
     /\ Cardinality(talkInflight') <= 1]_vars

\* the drain is over: nothing queued, nothing in flight, playback idle, and
\* every fragment enqueued was played to its end or skipped
Drained ==
  /\ audioQueue = <<>>
  /\ ~isPlaying
  /\ inflight = {}
  /\ \A i \in DOMAIN enqueued :
       \/ \E j \in DOMAIN started : started[j] = enqueued[i].id
       \/ \E j \in DOMAIN skipped : skipped[j] = enqueued[i].id

\* C29: when every decode settles and every playback ends, a drain that was
\* started is followed by a state with the queue empty, playback idle and
\* every enqueued fragment played to its end or skipped.
C29_DrainTerminates == (isPlaying \/ audioQueue # <<>>) ~> Drained

\* the drain of MaxFragments fragments is over, some played, some skipped
C29_Witness ==
  /\ Drained
  /\ Len(enqueued) = MaxFragments
  /\ started # <<>>
  /\ skipped # <<>>

\* C30: handleInputBufferCommitted sets userTranscriptFinalized to false and
\* the pending buffer to null, and leaves the two bubble references, the
\* pending recommendation payload and the chat as they were.
C30_BufferCommitted ==
  [][nEvents' # nEvents /\ lastEvent' = "committed" =>
       /\ userTranscriptFinalized' = FALSE
       /\ aiResponseBuffer' = <<>>
       /\ UNCHANGED <<currentUserSpeechBubble, lastAiElem, pendingTakeawayPayload,
                      messagesSection>>]_vars

\* a buffer-committed event arrived with the transcript final and an
\* assistant bubble active, after an earlier one had discarded a buffer
C30_Witness ==
  /\ lastEvent = "committed"
  /\ ~userTranscriptFinalized
  /\ aiResponseBuffer = <<>>
  /\ lastAiElem # 0
  /\ discarded # <<>>

\* index of the last "user" bubble of the chat, 0 if there is none
RECURSIVE LastUserBubble(_)
LastUserBubble(ms) ==
  IF ms = <<>> THEN 0
  ELSE IF ms[Len(ms)].sender = "user" THEN Len(ms)
  ELSE LastUserBubble(SubSeq(ms, 1, Len(ms) - 1))

C32_ImmediateRendering ==
  [][nEvents' # nEvents =>
       /\ lastEvent' = "text_delta" /\ userTranscriptFinalized =>
            LET chunk == SubSeq(received', Len(received) + 1, Len(received')) IN
            /\ aiResponseBuffer' = <<>>
            /\ IF lastAiElem = 0
                 THEN /\ messagesSection' =
                           Append(messagesSection,
                                  Bubble("ai", BufferContent \o chunk, FALSE))
                      /\ lastAiElem' = Len(messagesSection) + 1
                 ELSE /\ messagesSection' =
                           [messagesSection EXCEPT ![lastAiElem].rawText = @ \o chunk]
                      /\ lastAiElem' = lastAiElem
       /\ lastEvent' = "text_done" /\ userTranscriptFinalized => lastAiElem' = 0
       /\ lastAiElem = 0 /\ lastAiElem' # 0 =>
            /\ lastEvent' \in {"text_delta", "transcript_done"}
            /\ lastAiElem' = Len(messagesSection) + 1
            /\ Len(messagesSection') = Len(messagesSection) + 1
            /\ messagesSection'[lastAiElem'].sender = "ai"]_vars

\* with the transcript final, a text_delta has just started a new bubble
\* right after the bubble of an earlier response, and another one follows
C32_Witness ==
  /\ lastEvent = "text_delta"
  /\ userTranscriptFinalized
  /\ aiResponseBuffer = <<>>
  /\ lastAiElem = Len(messagesSection)
  /\ Len(messagesSection) = 2
  /\ \A i \in 1..2 : messagesSection[i].sender = "ai" /\ ~messagesSection[i].cards
  /\ Len(messagesSection[1].rawText) = 1
  /\ Len(messagesSection[2].rawText) = 2

\* C33: between handlers, userTranscriptFinalized = true implies that the
\* pending assistant buffer is null.
C33_FinalizedNoBuffer == userTranscriptFinalized => aiResponseBuffer = <<>>

\* a transcript_done has just flushed buffered text and made the transcript
\* final
C33_Witness ==
  /\ lastEvent = "transcript_done"
  /\ userTranscriptFinalized
  /\ aiResponseBuffer = <<>>
  /\ window.phase = "closed"
  /\ window.deltas # <<>>
  /\ ops # <<>>

\* C34: the transcript_done that flushes the buffer puts the buffered text
\* into an assistant bubble created at or after the most recent committed
\* event, never into one that was in the chat before it.
C34_FlushAfterCommitted ==
  [][/\ nEvents' # nEvents
     /\ lastEvent' = "transcript_done"
     /\ window.phase = "open"
     /\ BufferContent # <<>>
     => /\ ops' # <<>>
        /\ \A i \in DOMAIN ops' :
             /\ ops'[i].sender = "ai"
             /\ ops'[i].text = BufferContent
             /\ ops'[i].bubble > window.bubbles]_vars

\* number of recommendation-card bubbles in the chat
RECURSIVE CardBubbles(_)
CardBubbles(ms) ==
  IF ms = <<>> THEN 0
  ELSE (IF ms[1].cards THEN 1 ELSE 0) + CardBubbles(Tail(ms))

\* the handler of the step displays recommendation cards
CardsDisplayed == CardBubbles(messagesSection') # CardBubbles(messagesSection)

\* a takeaway_recommendation message changes nothing in the chat; cards are
\* displayed only by the handler of text_done, once per stored payload, and
\* the stored payload is null after that handler
TakeawayDisplayedOnceAtTextDone ==
  /\ lastEvent' = "takeaway" => messagesSection' = messagesSection
  /\ CardsDisplayed =>
       /\ lastEvent' = "text_done"
       /\ pendingTakeawayPayload = "recs"
       /\ messagesSection' = Append(messagesSection, Bubble("ai", <<>>, TRUE))
  /\ lastEvent' = "text_done" => pendingTakeawayPayload' = "null"

\* C39: recommendation cards are not displayed on receipt of the payload
\* but by the handler of a text_done, at most once, the stored payload being
\* null afterwards, and not while assistant text of the response is still
\* held in the pending buffer.
C39_TakeawayAfterText ==
  [][nEvents' # nEvents =>
       /\ TakeawayDisplayedOnceAtTextDone
       /\ CardsDisplayed => aiResponseBuffer' = <<>> \/ aiResponseBuffer'[1].content = <<>>]_vars

\* a reconnect timer that fires while the socket is open or connecting
\* leaves it alone
TimerSparesConnection ==
  lastConn' = "timer" /\ ws \in {"OPEN", "CONNECTING"} =>
    UNCHANGED <<ws, replaced, nSockets>>

\* an open socket stops being the open current socket only by its close
\* event or by cleanup()
OpenUntilClosed ==
  ws = "OPEN" /\ (ws' # "OPEN" \/ replaced' # replaced) =>
    lastConn' \in {"close", "cleanup"}

\* C35: a reconnect timer that fires while a connection is open or
\* connecting does not close or replace it; an opened socket stays the
\* current connection until its close event or cleanup(); at most one
\* reconnect timer is pending.
C35_ReconnectSparesHealthy ==
  [][/\ TimerSparesConnection
     /\ OpenUntilClosed
     /\ Len(timers') <= 1]_vars

\* C36: when stopAudioCapture was the last call (isAudioCaptureActive is
\* false) and every setup that was pending at that call has completed,
\* capture is not running: isRecording is false and no stream, source node
\* or processing node is held.
C36_StopDuringStart ==
  ~isAudioCaptureActive /\ setups = <<>> =>
    /\ ~captureIsRecording
    /\ ~audioStream
    /\ ~sourceNode
    /\ ~audioWorkletNode
    /\ ~scriptProcessorNode

\* the step is the resumption of a setup whose getUserMedia was granted:
\* the setup leaves its await with audioStream assigned the new stream
StreamAcquired ==
  /\ audioStream'
  /\ \E k \in DOMAIN setups :
       /\ setups[k] = "getUserMedia"
       /\ \/ setups' = RemoveAt(setups, k)
          \/ setups' = [setups EXCEPT ![k] = "addModule"]

\* C37: a microphone stream is assigned to audioStream only when audioStream
\* is null, so that no stream with live tracks is held besides the one
\* audioStream refers to and cleanupAudioResources can stop every stream
\* that was acquired.
C37_NoOrphanStream == [][StreamAcquired => ~audioStream]_vars

\* C38: the messages handed to the socket are well bracketed: a speech_end
\* is sent only when the last signal sent was a speech_start, a
\* speech_start only when it was not, and a user_audio_chunk only after a
\* speech_start and before its speech_end.
C38_SpeechBracketing ==
  [][/\ speech'.sent = "speech_end" => speech.open
     /\ speech'.sent = "speech_start" => ~speech.open
     /\ speech'.sent = "user_audio_chunk" => speech.open]_vars

\* C40: between callbacks, isPlaying = false implies that audioQueue is
\* empty (and that no fragment is being decoded or played), and
\* isPlaying = true implies that exactly one fragment is being decoded or
\* played, whose completion continues the drain.
C40_PlaybackBookkeeping ==
  /\ ~isPlaying => audioQueue = <<>> /\ inflight = {}
  /\ isPlaying => Cardinality(inflight) = 1

\* a fragment is playing and another waits in the queue, after the drain
\* skipped one that could not be played
C40_Witness ==
  /\ isPlaying
  /\ audioQueue # <<>>
  /\ skipped # <<>>
  /\ \E c \in inflight : c.stage = "playing"

====
